---- MODULE Spec2Model ----
(***************************************************************************)
(* Model of the batch credential registry (VCRegistry), the identifier     *)
(* registry (DIDRegistry) and the Merkle tree / Merkle proof algorithms    *)
(* used by the issuance client and the registry tests.                     *)
(*                                                                         *)
(* bytes32 values are modelled symbolically.  A value with no known        *)
(* preimage (a credential hash) is the one-element tuple <<i>>; the        *)
(* keccak256 digest of the 64-byte concatenation of two values a and b is  *)
(* the pair <<a, b>>.  This is the collision-free view of the hash: two    *)
(* digests are equal exactly when their inputs are equal.                  *)
(***************************************************************************)
EXTENDS Integers, Sequences, FiniteSets, TLC

VARIABLES
    \* VCRegistry storage
    merkleRootToIssuer,          \* mapping(bytes32 => address)
    isBatchCredentialRevoked,    \* mapping(bytes32 => bool)
    roles,                       \* AccessControl: role -> set of holders
    vcEvents,                    \* event log of the VCRegistry contract
    \* DIDRegistry storage
    dids,                        \* mapping(bytes32 => DIDDocument)
    nonces,                      \* mapping(address => uint256)
    ownerToDIDs,                 \* mapping(address => bytes32[])
    didEvents,                   \* event log of the DIDRegistry contract
    \* the last external call: function, sender, arguments, outcome
    ret,
    \* the off-chain Merkle client: its leaves, its tree, the proof it
    \* generated and the verdicts of the proof checks it made
    client,
    \* VerifiableCredential storage
    _credentials,                 \* mapping(bytes32 => Credential)
    trustedIssuers,              \* mapping(address => bool)
    owner,                       \* address
    credEvents,                  \* event log of the VerifiableCredential contract
    \* VCApplication component state
    vcRegistryContract,          \* the contract bound to the signer, or null
    credentialsToIssue,          \* the pending credentials
    isLoading,
    message,
    issueBatch,                  \* the running handleIssueBatch call and what it captured
    issuedBatches,               \* the batches whose transaction was confirmed
    \* useEthers hook state
    useEthers,                   \* provider, signer, account, error
    promises                     \* the pending promises and their continuations

vcVars == <<merkleRootToIssuer, isBatchCredentialRevoked, roles, vcEvents>>
didVars == <<dids, nonces, ownerToDIDs, didEvents>>
credVars == <<_credentials, trustedIssuers, owner, credEvents>>
uiVars == <<vcRegistryContract, credentialsToIssue, isLoading, message,
            issueBatch, issuedBatches>>
walletVars == <<useEthers, promises>>
vars == <<merkleRootToIssuer, isBatchCredentialRevoked, roles, vcEvents,
          dids, nonces, ownerToDIDs, didEvents, ret, client,
          _credentials, trustedIssuers, owner, credEvents,
          vcRegistryContract, credentialsToIssue, isLoading, message,
          issueBatch, issuedBatches, useEthers, promises>>

\* ------------------------------------------------------------------ bounds
\* longest leaf sequence handed to the tree builder
MaxLeaves == 5
\* events a run may emit
MaxEvents == 3

\* ------------------------------------------------------------- bytes32
\* The credential hashes of the registry scenario: three that are batched
\* together and one that is in no batch.
leaf1 == <<0>>
leaf2 == <<1>>
leaf3 == <<2>>
nonExistentLeaf == <<3>>
Leaves == { leaf1, leaf2, leaf3 }

\* Byte-wise comparison of two bytes32 values (Buffer.compare, Solidity a < b),
\* as a total order on the symbolic values.
RECURSIVE Less(_, _)
Less(a, b) ==
    IF Len(a) # Len(b) THEN Len(a) < Len(b)
    ELSE IF Len(a) = 1 THEN a[1] < b[1]
    ELSE \/ Less(a[1], b[1])
         \/ (a[1] = b[1] /\ Less(a[2], b[2]))

\* keccak256 of the concatenation of two bytes32 values.
keccak256(a, b) == <<a, b>>

\* --------------------------------------------------------- MerkleTree
\* Variant: the tree is built without the sortPairs option.
sortPairs_off == FALSE

\* Options given to the MerkleTree constructor by the client and the tests.
sortPairs == TRUE

\* One interior node: combined = [left, right]; sorted when sortPairs is set.
hashPair(left, right) ==
    IF sortPairs /\ Less(right, left)
    THEN keccak256(right, left)
    ELSE keccak256(left, right)

\* One pass of the layer loop, from (1-based) position i: nodes are paired
\* by position, and the last node of an odd layer is carried up unhashed.
RECURSIVE nextLayer(_, _)
nextLayer(nodes, i) ==
    IF i > Len(nodes) THEN <<>>
    ELSE IF i = Len(nodes) THEN <<nodes[i]>>
    ELSE <<hashPair(nodes[i], nodes[i + 1])>> \o nextLayer(nodes, i + 2)

\* The layers above `nodes`, until a layer of one node is reached.
RECURSIVE createHashes(_)
createHashes(nodes) ==
    IF Len(nodes) <= 1 THEN <<>>
    ELSE LET layer == nextLayer(nodes, 1)
         IN  <<layer>> \o createHashes(layer)

\* new MerkleTree(leaves, keccak256, { sortPairs: true }): the layers, leaves first.
MerkleTree(leafSeq) == <<leafSeq>> \o createHashes(leafSeq)

\* tree.getHexRoot()
getHexRoot(layers) == layers[Len(layers)][1]

\* Position (0-based) of the leaf the proof is generated for: the scan over
\* the leaves keeps the last match; -1 when the leaf is absent.
leafIndex(layers, leaf) ==
    LET hits == { i \in 1..Len(layers[1]) : layers[1][i] = leaf }
    IN  IF hits = {} THEN -1
        ELSE (CHOOSE i \in hits : \A j \in hits : j <= i) - 1

\* The siblings on the path from position `index` of layer k to the root.
RECURSIVE proofFrom(_, _, _)
proofFrom(layers, k, index) ==
    IF k > Len(layers) THEN <<>>
    ELSE LET layer == layers[k]
             isRightNode == (index % 2) = 1
             pairIndex == IF isRightNode THEN index - 1 ELSE index + 1
             rest == proofFrom(layers, k + 1, index \div 2)
         IN  IF pairIndex < Len(layer)
             THEN <<layer[pairIndex + 1]>> \o rest
             ELSE rest

\* tree.getHexProof(leaf): the empty proof when the leaf is not in the tree.
getHexProof(layers, leaf) ==
    LET index == leafIndex(layers, leaf)
    IN  IF index <= -1 THEN <<>> ELSE proofFrom(layers, 1, index)

\* -------------------------------------------------------- MerkleProof
\* Hash of a sorted pair, as the on-chain verifier computes it.
commutativeKeccak256(a, b) ==
    IF Less(a, b) THEN keccak256(a, b) ELSE keccak256(b, a)

\* The value rebuilt from `leaf` by folding the proof elements from i on.
RECURSIVE processProofFrom(_, _, _)
processProofFrom(proof, i, computedHash) ==
    IF i > Len(proof) THEN computedHash
    ELSE processProofFrom(proof, i + 1, commutativeKeccak256(computedHash, proof[i]))

processProof(proof, leaf) == processProofFrom(proof, 1, leaf)

\* MerkleProof.verify(proof, root, leaf)
MerkleProof_verify(proof, root, leaf) == processProof(proof, leaf) = root

\* ------------------------------------------------------------ universe
ZeroAddress == 0
\* The accounts: the deployer of the contracts and one more user.
Deployer == 1
User1 == 2
Address == { Deployer, User1 }

\* The batches published to the ledger: the three credentials, and the first
\* credential alone.
Batches == { <<leaf1, leaf2, leaf3>>, <<leaf1>> }
TreeOf == [b \in Batches |-> MerkleTree(b)]
RootOf == [b \in Batches |-> getHexRoot(TreeOf[b])]
RootUniverse == { RootOf[b] : b \in Batches }

\* The leaves callers name: one in both batches, one in the large batch only,
\* one in no batch.
LeafArgs == { leaf1, leaf2, nonExistentLeaf }

\* The bytes32 values that occur as mapping keys and call arguments: the
\* credential hashes and every node of the published trees.
NodesOf(layers) ==
    UNION { { layers[k][i] : i \in 1..Len(layers[k]) } : k \in 1..Len(layers) }
Bytes32 == LeafArgs \cup UNION { NodesOf(TreeOf[b]) : b \in Batches }

\* The proofs presented to the verifier: the proof the tree of each batch
\* yields for each leaf (empty when the leaf is not in the batch).
ProofArgs == { getHexProof(TreeOf[b], l) : b \in Batches, l \in LeafArgs }

\* ---------------------------------------------------------- VCRegistry
DEFAULT_ADMIN_ROLE == "DEFAULT_ADMIN_ROLE"
ISSUER_ROLE == "ISSUER_ROLE"
Roles == { DEFAULT_ADMIN_ROLE, ISSUER_ROLE }

\* revert reasons
ErrUnauthorizedAccount == "AccessControlUnauthorizedAccount"
ErrBadConfirmation == "AccessControlBadConfirmation"
ErrRootExists == "VCRegistry: Merkle root already exists"
ErrRootUnknown == "VCRegistry: Merkle root does not exist"
ErrNotBatchIssuer == "VCRegistry: Caller is not the batch issuer"
ErrAlreadyRevoked == "VCRegistry: Credential already revoked"
Ok == "ok"

Call(op, sender, args, status, out) ==
    [op |-> op, sender |-> sender, args |-> args, status |-> status, out |-> out]

\* A run emits at most MaxEvents events.
EventBudget == Len(vcEvents) + Len(didEvents) < MaxEvents

\* constructor: the deployer gets both the admin and the issuer role.
VCInit ==
    /\ merkleRootToIssuer = [r \in Bytes32 |-> ZeroAddress]
    /\ isBatchCredentialRevoked = [l \in Bytes32 |-> FALSE]
    /\ roles = [r \in Roles |-> {Deployer}]
    /\ vcEvents = <<>>

\* modifier onlyRole(role)
hasRole(role, account) == account \in roles[role]

\* AccessControl.grantRole(role, account), onlyRole(getRoleAdmin(role)); the
\* admin role of every role is DEFAULT_ADMIN_ROLE.
grantRole(sender, role, account) ==
    LET status == IF ~hasRole(DEFAULT_ADMIN_ROLE, sender)
                  THEN ErrUnauthorizedAccount ELSE Ok
    IN  /\ ret' = Call("grantRole", sender, <<role, account>>, status, <<>>)
        /\ roles' = IF status = Ok
                    THEN [roles EXCEPT ![role] = @ \cup {account}]
                    ELSE roles
        /\ UNCHANGED <<merkleRootToIssuer, isBatchCredentialRevoked, vcEvents>>
        /\ UNCHANGED <<didVars, client, credVars, uiVars, walletVars>>

\* AccessControl.revokeRole(role, account), onlyRole(getRoleAdmin(role))
revokeRole(sender, role, account) ==
    LET status == IF ~hasRole(DEFAULT_ADMIN_ROLE, sender)
                  THEN ErrUnauthorizedAccount ELSE Ok
    IN  /\ ret' = Call("revokeRole", sender, <<role, account>>, status, <<>>)
        /\ roles' = IF status = Ok
                    THEN [roles EXCEPT ![role] = @ \ {account}]
                    ELSE roles
        /\ UNCHANGED <<merkleRootToIssuer, isBatchCredentialRevoked, vcEvents>>
        /\ UNCHANGED <<didVars, client, credVars, uiVars, walletVars>>

\* AccessControl.renounceRole(role, callerConfirmation)
renounceRole(sender, role, callerConfirmation) ==
    LET status == IF callerConfirmation # sender
                  THEN ErrBadConfirmation ELSE Ok
    IN  /\ ret' = Call("renounceRole", sender, <<role, callerConfirmation>>, status, <<>>)
        /\ roles' = IF status = Ok
                    THEN [roles EXCEPT ![role] = @ \ {sender}]
                    ELSE roles
        /\ UNCHANGED <<merkleRootToIssuer, isBatchCredentialRevoked, vcEvents>>
        /\ UNCHANGED <<didVars, client, credVars, uiVars, walletVars>>

\* Variant: the holders of ISSUER_ROLE, not the admins, may grant it.
grantIssuerRole_issuerMayGrant(sender, account) ==
    LET status == IF ~hasRole(ISSUER_ROLE, sender)
                  THEN ErrUnauthorizedAccount ELSE Ok
    IN  /\ ret' = Call("grantIssuerRole", sender, <<account>>, status, <<>>)
        /\ roles' = IF status = Ok
                    THEN [roles EXCEPT ![ISSUER_ROLE] = @ \cup {account}]
                    ELSE roles
        /\ UNCHANGED <<merkleRootToIssuer, isBatchCredentialRevoked, vcEvents>>
        /\ UNCHANGED <<didVars, client, credVars, uiVars, walletVars>>

\* grantIssuerRole(_issuer), onlyRole(DEFAULT_ADMIN_ROLE)
grantIssuerRole(sender, account) ==
    LET status == IF ~hasRole(DEFAULT_ADMIN_ROLE, sender)
                  THEN ErrUnauthorizedAccount ELSE Ok
    IN  /\ ret' = Call("grantIssuerRole", sender, <<account>>, status, <<>>)
        /\ roles' = IF status = Ok
                    THEN [roles EXCEPT ![ISSUER_ROLE] = @ \cup {account}]
                    ELSE roles
        /\ UNCHANGED <<merkleRootToIssuer, isBatchCredentialRevoked, vcEvents>>
        /\ UNCHANGED <<didVars, client, credVars, uiVars, walletVars>>

\* Variant: the roots the account published are deleted with its role.
revokeIssuerRole_deletesBatches(sender, account) ==
    LET status == IF ~hasRole(DEFAULT_ADMIN_ROLE, sender)
                  THEN ErrUnauthorizedAccount ELSE Ok
    IN  /\ ret' = Call("revokeIssuerRole", sender, <<account>>, status, <<>>)
        /\ roles' = IF status = Ok
                    THEN [roles EXCEPT ![ISSUER_ROLE] = @ \ {account}]
                    ELSE roles
        /\ merkleRootToIssuer' =
               IF status = Ok
               THEN [r \in DOMAIN merkleRootToIssuer |->
                        IF merkleRootToIssuer[r] = account
                        THEN ZeroAddress ELSE merkleRootToIssuer[r]]
               ELSE merkleRootToIssuer
        /\ UNCHANGED <<isBatchCredentialRevoked, vcEvents>>
        /\ UNCHANGED <<didVars, client, credVars, uiVars, walletVars>>

\* revokeIssuerRole(_issuer), onlyRole(DEFAULT_ADMIN_ROLE)
revokeIssuerRole(sender, account) ==
    LET status == IF ~hasRole(DEFAULT_ADMIN_ROLE, sender)
                  THEN ErrUnauthorizedAccount ELSE Ok
    IN  /\ ret' = Call("revokeIssuerRole", sender, <<account>>, status, <<>>)
        /\ roles' = IF status = Ok
                    THEN [roles EXCEPT ![ISSUER_ROLE] = @ \ {account}]
                    ELSE roles
        /\ UNCHANGED <<merkleRootToIssuer, isBatchCredentialRevoked, vcEvents>>
        /\ UNCHANGED <<didVars, client, credVars, uiVars, walletVars>>

\* Variant: the role is not checked before the duplicate check.
issueBatchCredentials_status_noRole(sender, root) ==
    IF merkleRootToIssuer[root] # ZeroAddress THEN ErrRootExists ELSE Ok

\* Variant: a root that is already recorded is accepted again.
issueBatchCredentials_status_noDuplicateCheck(sender, root) ==
    IF ~hasRole(ISSUER_ROLE, sender) THEN ErrUnauthorizedAccount ELSE Ok

\* Variant: a recorded root is refused only when the caller recorded it.
issueBatchCredentials_status_ownRootOnly(sender, root) ==
    IF ~hasRole(ISSUER_ROLE, sender) THEN ErrUnauthorizedAccount
    ELSE IF merkleRootToIssuer[root] = sender THEN ErrRootExists
    ELSE Ok

\* The outcome of issueBatchCredentials(_merkleRoot) sent by `sender`.
issueBatchCredentials_status(sender, root) ==
    IF ~hasRole(ISSUER_ROLE, sender) THEN ErrUnauthorizedAccount
    ELSE IF merkleRootToIssuer[root] # ZeroAddress THEN ErrRootExists
    ELSE Ok

\* Variant: the root is recorded without an event.
issueBatchCredentials_noEvent(sender, root) ==
    LET status == issueBatchCredentials_status(sender, root)
    IN  /\ status = Ok => EventBudget
        /\ ret' = Call("issueBatchCredentials", sender, <<root>>, status, <<>>)
        /\ merkleRootToIssuer' = IF status = Ok
                                 THEN [merkleRootToIssuer EXCEPT ![root] = sender]
                                 ELSE merkleRootToIssuer
        /\ UNCHANGED <<vcEvents, isBatchCredentialRevoked, roles, didVars, client, credVars, uiVars, walletVars>>

\* issueBatchCredentials(_merkleRoot), onlyRole(ISSUER_ROLE)
issueBatchCredentials(sender, root) ==
    LET status == issueBatchCredentials_status(sender, root)
    IN  /\ status = Ok => EventBudget
        /\ ret' = Call("issueBatchCredentials", sender, <<root>>, status, <<>>)
        /\ IF status = Ok
           THEN /\ merkleRootToIssuer' = [merkleRootToIssuer EXCEPT ![root] = sender]
                /\ vcEvents' = Append(vcEvents,
                       [name |-> "BatchCredentialsIssued", args |-> <<root, sender>>])
           ELSE UNCHANGED <<merkleRootToIssuer, vcEvents>>
        /\ UNCHANGED <<isBatchCredentialRevoked, roles, didVars, client, credVars, uiVars, walletVars>>

\* Variant: any holder of ISSUER_ROLE may revoke under a recorded root.
revokeBatchCredential_status_anyIssuer(sender, leaf, root) ==
    IF merkleRootToIssuer[root] = ZeroAddress THEN ErrRootUnknown
    ELSE IF ~hasRole(ISSUER_ROLE, sender) THEN ErrNotBatchIssuer
    ELSE IF isBatchCredentialRevoked[leaf] THEN ErrAlreadyRevoked
    ELSE Ok

\* Variant: the revocation flag is tested before the root and the caller.
revokeBatchCredential_status_revokedFirst(sender, leaf, root) ==
    LET issuer == merkleRootToIssuer[root]
    IN  IF isBatchCredentialRevoked[leaf] THEN ErrAlreadyRevoked
        ELSE IF issuer = ZeroAddress THEN ErrRootUnknown
        ELSE IF sender # issuer THEN ErrNotBatchIssuer
        ELSE Ok

\* Variant: a leaf that is already revoked may be revoked again.
revokeBatchCredential_status_noRevokedCheck(sender, leaf, root) ==
    LET issuer == merkleRootToIssuer[root]
    IN  IF issuer = ZeroAddress THEN ErrRootUnknown
        ELSE IF sender # issuer THEN ErrNotBatchIssuer
        ELSE Ok

\* Variant: only a hash that occurs in the tree of the root may be revoked.
revokeBatchCredential_status_membersOnly(sender, leaf, root) ==
    LET issuer == merkleRootToIssuer[root]
    IN  IF issuer = ZeroAddress THEN ErrRootUnknown
        ELSE IF sender # issuer THEN ErrNotBatchIssuer
        ELSE IF isBatchCredentialRevoked[leaf] THEN ErrAlreadyRevoked
        ELSE IF \A b \in Batches : RootOf[b] = root => leaf \notin NodesOf(TreeOf[b])
             THEN "VCRegistry: Leaf not in batch"
        ELSE Ok

\* The outcome of revokeBatchCredential(_leaf, _merkleRoot) sent by `sender`.
revokeBatchCredential_status(sender, leaf, root) ==
    LET issuer == merkleRootToIssuer[root]
    IN  IF issuer = ZeroAddress THEN ErrRootUnknown
        ELSE IF sender # issuer THEN ErrNotBatchIssuer
        ELSE IF isBatchCredentialRevoked[leaf] THEN ErrAlreadyRevoked
        ELSE Ok

\* revokeBatchCredential(_leaf, _merkleRoot)
revokeBatchCredential(sender, leaf, root) ==
    LET status == revokeBatchCredential_status(sender, leaf, root)
    IN  /\ status = Ok => EventBudget
        /\ ret' = Call("revokeBatchCredential", sender, <<leaf, root>>, status, <<>>)
        /\ IF status = Ok
           THEN /\ isBatchCredentialRevoked' =
                       [isBatchCredentialRevoked EXCEPT ![leaf] = TRUE]
                /\ vcEvents' = Append(vcEvents,
                       [name |-> "BatchCredentialRevoked", args |-> <<leaf, root, sender>>])
           ELSE UNCHANGED <<isBatchCredentialRevoked, vcEvents>>
        /\ UNCHANGED <<merkleRootToIssuer, roles, didVars, client, credVars, uiVars, walletVars>>

\* Variant: the root is passed in the place of the leaf.
verifyProof_rootAsLeaf(leaf, root, proof) == MerkleProof_verify(proof, root, root)

\* The proof check made on chain: MerkleProof.verify(_proof, _merkleRoot, _leaf).
verifyProof(leaf, root, proof) == MerkleProof_verify(proof, root, leaf)

\* Variant: the revocation mapping is not consulted.
verifyCredential_result_noRevocation(leaf, root, proof) ==
    LET issuer == merkleRootToIssuer[root]
    IN  IF issuer = ZeroAddress
        THEN [status |-> Ok, valid |-> FALSE, issuer |-> ZeroAddress, at |-> "unknownRoot"]
        ELSE IF MerkleProof_verify(proof, root, leaf)
             THEN [status |-> Ok, valid |-> TRUE, issuer |-> issuer, at |-> "valid"]
             ELSE [status |-> Ok, valid |-> FALSE, issuer |-> ZeroAddress, at |-> "invalidProof"]

\* Variant: the caller-independent admin is reported instead of the issuer
\* recorded for the root.
verifyCredential_result_deployer(leaf, root, proof) ==
    IF isBatchCredentialRevoked[leaf]
    THEN [status |-> Ok, valid |-> FALSE, issuer |-> ZeroAddress, at |-> "revoked"]
    ELSE IF merkleRootToIssuer[root] = ZeroAddress
         THEN [status |-> Ok, valid |-> FALSE, issuer |-> ZeroAddress, at |-> "unknownRoot"]
         ELSE IF MerkleProof_verify(proof, root, leaf)
              THEN [status |-> Ok, valid |-> TRUE, issuer |-> Deployer, at |-> "valid"]
              ELSE [status |-> Ok, valid |-> FALSE, issuer |-> ZeroAddress, at |-> "invalidProof"]

\* Variant: a root without a recorded issuer is refused with an error, as
\* revokeBatchCredential refuses it.
verifyCredential_result_requireRoot(leaf, root, proof) ==
    IF isBatchCredentialRevoked[leaf]
    THEN [status |-> Ok, valid |-> FALSE, issuer |-> ZeroAddress, at |-> "revoked"]
    ELSE IF merkleRootToIssuer[root] = ZeroAddress
         THEN [status |-> ErrRootUnknown, valid |-> FALSE, issuer |-> ZeroAddress,
               at |-> "unknownRoot"]
         ELSE IF MerkleProof_verify(proof, root, leaf)
              THEN [status |-> Ok, valid |-> TRUE, issuer |-> merkleRootToIssuer[root],
                    at |-> "valid"]
              ELSE [status |-> Ok, valid |-> FALSE, issuer |-> ZeroAddress,
                    at |-> "invalidProof"]

\* Variant: the empty proof is accepted for every leaf.
verifyCredential_result_emptyProof(leaf, root, proof) ==
    IF isBatchCredentialRevoked[leaf]
    THEN [status |-> Ok, valid |-> FALSE, issuer |-> ZeroAddress, at |-> "revoked"]
    ELSE IF merkleRootToIssuer[root] = ZeroAddress
         THEN [status |-> Ok, valid |-> FALSE, issuer |-> ZeroAddress, at |-> "unknownRoot"]
         ELSE IF proof = <<>> \/ MerkleProof_verify(proof, root, leaf)
              THEN [status |-> Ok, valid |-> TRUE, issuer |-> merkleRootToIssuer[root],
                    at |-> "valid"]
              ELSE [status |-> Ok, valid |-> FALSE, issuer |-> ZeroAddress,
                    at |-> "invalidProof"]

\* Variant: a revocation counts only under the root it was made under.
verifyCredential_result_revokedPerRoot(leaf, root, proof) ==
    IF /\ isBatchCredentialRevoked[leaf]
       /\ \E i \in 1..Len(vcEvents) :
             /\ vcEvents[i].name = "BatchCredentialRevoked"
             /\ vcEvents[i].args[1] = leaf
             /\ vcEvents[i].args[2] = root
    THEN [status |-> Ok, valid |-> FALSE, issuer |-> ZeroAddress, at |-> "revoked"]
    ELSE IF merkleRootToIssuer[root] = ZeroAddress
         THEN [status |-> Ok, valid |-> FALSE, issuer |-> ZeroAddress, at |-> "unknownRoot"]
         ELSE IF MerkleProof_verify(proof, root, leaf)
              THEN [status |-> Ok, valid |-> TRUE, issuer |-> merkleRootToIssuer[root],
                    at |-> "valid"]
              ELSE [status |-> Ok, valid |-> FALSE, issuer |-> ZeroAddress,
                    at |-> "invalidProof"]

\* Variant: the root is looked up before the revocation mapping.
verifyCredential_result_rootFirst(leaf, root, proof) ==
    IF merkleRootToIssuer[root] = ZeroAddress
    THEN [status |-> Ok, valid |-> FALSE, issuer |-> ZeroAddress, at |-> "unknownRoot"]
    ELSE IF isBatchCredentialRevoked[leaf]
         THEN [status |-> Ok, valid |-> FALSE, issuer |-> ZeroAddress, at |-> "revoked"]
         ELSE IF MerkleProof_verify(proof, root, leaf)
              THEN [status |-> Ok, valid |-> TRUE, issuer |-> merkleRootToIssuer[root], at |-> "valid"]
              ELSE [status |-> Ok, valid |-> FALSE, issuer |-> ZeroAddress, at |-> "invalidProof"]

\* The value returned by verifyCredential(_leaf, _merkleRoot, _proof): the
\* verdict, the issuer, and the return statement that produced them.
verifyCredential_result(leaf, root, proof) ==
    IF isBatchCredentialRevoked[leaf]
    THEN [status |-> Ok, valid |-> FALSE, issuer |-> ZeroAddress, at |-> "revoked"]
    ELSE LET issuer == merkleRootToIssuer[root]
         IN  IF issuer = ZeroAddress
             THEN [status |-> Ok, valid |-> FALSE, issuer |-> ZeroAddress, at |-> "unknownRoot"]
             ELSE LET isValid == verifyProof(leaf, root, proof)
                  IN  IF isValid
                      THEN [status |-> Ok, valid |-> TRUE, issuer |-> issuer, at |-> "valid"]
                      ELSE [status |-> Ok, valid |-> FALSE, issuer |-> ZeroAddress, at |-> "invalidProof"]

\* Variant: a leaf whose verification fails is recorded as revoked.
verifyCredential_recordsFailure(leaf, root, proof) ==
    /\ LET result == verifyCredential_result(leaf, root, proof)
       IN  /\ ret' = Call("verifyCredential", ZeroAddress, <<leaf, root, proof>>,
                          result.status, result)
           /\ isBatchCredentialRevoked' =
                  [h \in DOMAIN isBatchCredentialRevoked |->
                      isBatchCredentialRevoked[h] \/ (h = leaf /\ ~result.valid)]
    /\ UNCHANGED <<merkleRootToIssuer, roles, vcEvents, didVars, client, credVars, uiVars, walletVars>>

\* verifyCredential(_leaf, _merkleRoot, _proof), a view function
verifyCredential(leaf, root, proof) ==
    /\ LET result == verifyCredential_result(leaf, root, proof)
       IN  ret' = Call("verifyCredential", ZeroAddress, <<leaf, root, proof>>,
                       result.status, result)
    /\ UNCHANGED <<vcVars, didVars, client, credVars, uiVars, walletVars>>

\* --------------------------------------------------------- DIDRegistry
Active == "Active"
Revoked == "Revoked"
ipfsCid1 == "QmXg9Pp2ytZ14xgmQjPyYnHRfT7dJ2vGvG9x3v1a1a1a1a"
ipfsCid2 == "QmYh9Pp2ytZ14xgmQjPyYnHRfT7dJ2vGvG9x3v2b2b2b2b"
Cids == { ipfsCid1, ipfsCid2 }

ErrDIDExists == "DIDRegistry: DID already exists"
ErrDIDNotExist == "DIDRegistry: DID does not exist"
ErrNotController == "DIDRegistry: Caller is not the controller"
ErrDIDRevoked == "DIDRegistry: DID is revoked"
ErrDIDAlreadyRevoked == "DIDRegistry: DID is already revoked"

\* keccak256(abi.encodePacked(controller, nonce)): the packed encoding has a
\* fixed width, so distinct (controller, nonce) give distinct identifiers.
didOf(controller, nonce) == <<controller, nonce>>

\* The identifiers callers name; those of nonce MaxEvents are never created.
DIDUniverse == { didOf(a, n) : a \in Address, n \in 0..MaxEvents }

\* storage of a freshly deployed DIDRegistry
DIDInit ==
    /\ dids = [d \in DIDUniverse |->
                 [controller |-> ZeroAddress, cid |-> "", status |-> Active]]
    /\ nonces = [a \in Address |-> 0]
    /\ ownerToDIDs = [a \in Address |-> <<>>]
    /\ didEvents = <<>>

\* Variant: the new identifier is not pushed to the owner's list.
createDID_noIndex(sender, cid) ==
    LET userNonce == nonces[sender]
        did == didOf(sender, userNonce)
        status == IF dids[did].controller # ZeroAddress THEN ErrDIDExists ELSE Ok
    IN  /\ status = Ok => EventBudget
        /\ ret' = Call("createDID", sender, <<cid>>, status, <<>>)
        /\ IF status = Ok
           THEN /\ dids' = [dids EXCEPT ![did] =
                       [controller |-> sender, cid |-> cid, status |-> Active]]
                /\ nonces' = [nonces EXCEPT ![sender] = @ + 1]
                /\ didEvents' = Append(didEvents,
                       [name |-> "DIDRegistered", args |-> <<did, sender, cid>>])
                /\ UNCHANGED ownerToDIDs
           ELSE UNCHANGED didVars
        /\ UNCHANGED <<vcVars, client, credVars, uiVars, walletVars>>

\* Variant: the caller's nonce is not incremented after the creation.
createDID_noNonceIncrement(sender, cid) ==
    LET userNonce == nonces[sender]
        did == didOf(sender, userNonce)
        status == IF dids[did].controller # ZeroAddress THEN ErrDIDExists ELSE Ok
    IN  /\ status = Ok => EventBudget
        /\ ret' = Call("createDID", sender, <<cid>>, status, <<>>)
        /\ IF status = Ok
           THEN /\ dids' = [dids EXCEPT ![did] =
                       [controller |-> sender, cid |-> cid, status |-> Active]]
                /\ ownerToDIDs' = [ownerToDIDs EXCEPT ![sender] = Append(@, did)]
                /\ didEvents' = Append(didEvents,
                       [name |-> "DIDRegistered", args |-> <<did, sender, cid>>])
                /\ UNCHANGED nonces
           ELSE UNCHANGED didVars
        /\ UNCHANGED <<vcVars, client, credVars, uiVars, walletVars>>

\* Variant: the new identifier is put at the front of the owner's list.
createDID_prepends(sender, cid) ==
    LET userNonce == nonces[sender]
        did == didOf(sender, userNonce)
        status == IF dids[did].controller # ZeroAddress THEN ErrDIDExists ELSE Ok
    IN  /\ status = Ok => EventBudget
        /\ ret' = Call("createDID", sender, <<cid>>, status, <<>>)
        /\ IF status = Ok
           THEN /\ dids' = [dids EXCEPT ![did] =
                       [controller |-> sender, cid |-> cid, status |-> Active]]
                /\ nonces' = [nonces EXCEPT ![sender] = @ + 1]
                /\ ownerToDIDs' = [ownerToDIDs EXCEPT ![sender] = <<did>> \o @]
                /\ didEvents' = Append(didEvents,
                       [name |-> "DIDRegistered", args |-> <<did, sender, cid>>])
           ELSE UNCHANGED didVars
        /\ UNCHANGED <<vcVars, client, credVars, uiVars, walletVars>>

\* createDID(_cid)
createDID(sender, cid) ==
    LET userNonce == nonces[sender]
        did == didOf(sender, userNonce)
        status == IF dids[did].controller # ZeroAddress THEN ErrDIDExists ELSE Ok
    IN  /\ status = Ok => EventBudget
        /\ ret' = Call("createDID", sender, <<cid>>, status, <<>>)
        /\ IF status = Ok
           THEN /\ dids' = [dids EXCEPT ![did] =
                       [controller |-> sender, cid |-> cid, status |-> Active]]
                /\ nonces' = [nonces EXCEPT ![sender] = @ + 1]
                /\ ownerToDIDs' = [ownerToDIDs EXCEPT ![sender] = Append(@, did)]
                /\ didEvents' = Append(didEvents,
                       [name |-> "DIDRegistered", args |-> <<did, sender, cid>>])
           ELSE UNCHANGED didVars
        /\ UNCHANGED <<vcVars, client, credVars, uiVars, walletVars>>

\* Variant: the caller is not compared with the controller.
updateDID_status_noControllerCheck(sender, did) ==
    LET doc == dids[did]
    IN  IF doc.controller = ZeroAddress THEN ErrDIDNotExist
        ELSE IF doc.status # Active THEN ErrDIDRevoked
        ELSE Ok

\* Variant: the status of the record is not tested.
updateDID_status_noRevokedCheck(sender, did) ==
    LET doc == dids[did]
    IN  IF doc.controller = ZeroAddress THEN ErrDIDNotExist
        ELSE IF doc.controller # sender THEN ErrNotController
        ELSE Ok

\* The outcome of updateDID(_did, _newCid) sent by `sender`.
updateDID_status(sender, did) ==
    LET doc == dids[did]
    IN  IF doc.controller = ZeroAddress THEN ErrDIDNotExist
        ELSE IF doc.controller # sender THEN ErrNotController
        ELSE IF doc.status # Active THEN ErrDIDRevoked
        ELSE Ok

\* Variant: the cid is written before the checks and stays written when they fail.
updateDID_partialWrite(sender, did, newCid) ==
    LET status == updateDID_status(sender, did)
    IN  /\ status = Ok => EventBudget
        /\ ret' = Call("updateDID", sender, <<did, newCid>>, status, <<>>)
        /\ dids' = [dids EXCEPT ![did].cid = newCid]
        /\ didEvents' = IF status = Ok
                        THEN Append(didEvents,
                                [name |-> "DIDUpdated", args |-> <<did, newCid>>])
                        ELSE didEvents
        /\ UNCHANGED <<nonces, ownerToDIDs, vcVars, client, credVars, uiVars, walletVars>>

\* updateDID(_did, _newCid)
updateDID(sender, did, newCid) ==
    LET status == updateDID_status(sender, did)
    IN  /\ status = Ok => EventBudget
        /\ ret' = Call("updateDID", sender, <<did, newCid>>, status, <<>>)
        /\ IF status = Ok
           THEN /\ dids' = [dids EXCEPT ![did].cid = newCid]
                /\ didEvents' = Append(didEvents,
                       [name |-> "DIDUpdated", args |-> <<did, newCid>>])
           ELSE UNCHANGED <<dids, didEvents>>
        /\ UNCHANGED <<nonces, ownerToDIDs, vcVars, client, credVars, uiVars, walletVars>>

\* Variant: the caller of revokeDID is not compared with the controller.
revokeDID_status_noControllerCheck(sender, did) ==
    LET doc == dids[did]
    IN  IF doc.controller = ZeroAddress THEN ErrDIDNotExist
        ELSE IF doc.status # Active THEN ErrDIDAlreadyRevoked
        ELSE Ok

\* The outcome of revokeDID(_did) sent by `sender`.
revokeDID_status(sender, did) ==
    LET doc == dids[did]
    IN  IF doc.controller = ZeroAddress THEN ErrDIDNotExist
        ELSE IF doc.controller # sender THEN ErrNotController
        ELSE IF doc.status # Active THEN ErrDIDAlreadyRevoked
        ELSE Ok

\* revokeDID(_did)
revokeDID(sender, did) ==
    LET status == revokeDID_status(sender, did)
    IN  /\ status = Ok => EventBudget
        /\ ret' = Call("revokeDID", sender, <<did>>, status, <<>>)
        /\ IF status = Ok
           THEN /\ dids' = [dids EXCEPT ![did].status = Revoked]
                /\ didEvents' = Append(didEvents,
                       [name |-> "DIDRevoked", args |-> <<did>>])
           ELSE UNCHANGED <<dids, didEvents>>
        /\ UNCHANGED <<nonces, ownerToDIDs, vcVars, client, credVars, uiVars, walletVars>>

\* Variant: the record is returned without testing that it exists.
resolveDID_noExistenceCheck(did) ==
    LET doc == dids[did]
    IN  /\ ret' = Call("resolveDID", ZeroAddress, <<did>>, Ok,
                       <<doc.controller, doc.cid, doc.status>>)
        /\ UNCHANGED <<vcVars, didVars, client, credVars, uiVars, walletVars>>

\* Variant: only an active identifier resolves.
resolveDID_activeOnly(did) ==
    LET doc == dids[did]
    IN  /\ ret' = IF doc.controller = ZeroAddress
                  THEN Call("resolveDID", ZeroAddress, <<did>>, ErrDIDNotExist, <<>>)
                  ELSE IF doc.status # Active
                  THEN Call("resolveDID", ZeroAddress, <<did>>, ErrDIDRevoked, <<>>)
                  ELSE Call("resolveDID", ZeroAddress, <<did>>, Ok,
                            <<doc.controller, doc.cid, doc.status>>)
        /\ UNCHANGED <<vcVars, didVars, client, credVars, uiVars, walletVars>>

\* resolveDID(_did), a view function
resolveDID(did) ==
    LET doc == dids[did]
    IN  /\ ret' = IF doc.controller = ZeroAddress
                  THEN Call("resolveDID", ZeroAddress, <<did>>, ErrDIDNotExist, <<>>)
                  ELSE Call("resolveDID", ZeroAddress, <<did>>, Ok,
                            <<doc.controller, doc.cid, doc.status>>)
        /\ UNCHANGED <<vcVars, didVars, client, credVars, uiVars, walletVars>>

\* getDIDsByOwner(_owner), a view function
getDIDsByOwner(_owner) ==
    /\ ret' = Call("getDIDsByOwner", ZeroAddress, <<_owner>>, Ok, ownerToDIDs[_owner])
    /\ UNCHANGED <<vcVars, didVars, client, credVars, uiVars, walletVars>>

\* ------------------------------------------------ VerifiableCredential
ErrNotOwner == "VC: Caller is not the owner"
ErrNotTrustedIssuer == "VC: Caller is not a trusted issuer"
ErrIssuerAlreadyTrusted == "VC: Issuer already trusted"
ErrIssuerNotTrusted == "VC: Issuer not trusted"
ErrCredentialExists == "VC: Credential ID already exists"
ErrNotIssuer == "VC: Caller is not the issuer"
ErrCredentialRevoked == "VC: Credential already revoked"

\* The credential identifiers and subject identifiers callers name.
CredentialIds == { leaf1, leaf2 }
SubjectDIDs == { didOf(User1, 0) }

\* The default value of a Credential in storage.
NoCredential ==
    [issuer |-> ZeroAddress, subjectDID |-> <<>>, ipfsHash |-> "", revoked |-> FALSE]

\* A run of the VerifiableCredential contract emits at most MaxEvents events.
CredBudget == Len(credEvents) < MaxEvents

\* constructor: the deployer is the owner and an initial trusted issuer.
CredInit ==
    /\ _credentials = [id \in CredentialIds |-> NoCredential]
    /\ trustedIssuers = [a \in Address |-> a = Deployer]
    /\ owner = Deployer
    /\ credEvents = <<>>

\* addIssuer(issuer), onlyOwner
addIssuer(sender, issuer) ==
    LET status == IF sender # owner THEN ErrNotOwner
                  ELSE IF trustedIssuers[issuer] THEN ErrIssuerAlreadyTrusted
                  ELSE Ok
    IN  /\ status = Ok => CredBudget
        /\ ret' = Call("addIssuer", sender, <<issuer>>, status, <<>>)
        /\ IF status = Ok
           THEN /\ trustedIssuers' = [trustedIssuers EXCEPT ![issuer] = TRUE]
                /\ credEvents' = Append(credEvents,
                       [name |-> "IssuerAdded", args |-> <<issuer>>])
           ELSE UNCHANGED <<trustedIssuers, credEvents>>
        /\ UNCHANGED <<_credentials, owner, vcVars, didVars, client, uiVars, walletVars>>

\* removeIssuer(issuer), onlyOwner
removeIssuer(sender, issuer) ==
    LET status == IF sender # owner THEN ErrNotOwner
                  ELSE IF ~trustedIssuers[issuer] THEN ErrIssuerNotTrusted
                  ELSE Ok
    IN  /\ status = Ok => CredBudget
        /\ ret' = Call("removeIssuer", sender, <<issuer>>, status, <<>>)
        /\ IF status = Ok
           THEN /\ trustedIssuers' = [trustedIssuers EXCEPT ![issuer] = FALSE]
                /\ credEvents' = Append(credEvents,
                       [name |-> "IssuerRemoved", args |-> <<issuer>>])
           ELSE UNCHANGED <<trustedIssuers, credEvents>>
        /\ UNCHANGED <<_credentials, owner, vcVars, didVars, client, uiVars, walletVars>>

\* The outcome of issueCredential(credentialId, ...) sent by `sender`.
issueCredential_status(sender, credentialId) ==
    IF ~trustedIssuers[sender] THEN ErrNotTrustedIssuer
    ELSE IF _credentials[credentialId].issuer # ZeroAddress THEN ErrCredentialExists
    ELSE Ok

\* issueCredential(credentialId, subjectDID, ipfsHash), onlyTrustedIssuer
issueCredential(sender, credentialId, subjectDID, ipfsHash) ==
    LET status == issueCredential_status(sender, credentialId)
    IN  /\ status = Ok => CredBudget
        /\ ret' = Call("issueCredential", sender,
                       <<credentialId, subjectDID, ipfsHash>>, status, <<>>)
        /\ IF status = Ok
           THEN /\ _credentials' = [_credentials EXCEPT ![credentialId] =
                       [issuer |-> sender, subjectDID |-> subjectDID,
                        ipfsHash |-> ipfsHash, revoked |-> FALSE]]
                /\ credEvents' = Append(credEvents,
                       [name |-> "CredentialIssued",
                        args |-> <<credentialId, sender, subjectDID>>])
           ELSE UNCHANGED <<_credentials, credEvents>>
        /\ UNCHANGED <<trustedIssuers, owner, vcVars, didVars, client, uiVars, walletVars>>

\* The outcome of revokeCredential(credentialId) sent by `sender`.
revokeCredential_status(sender, credentialId) ==
    LET cred == _credentials[credentialId]
    IN  IF cred.issuer # sender THEN ErrNotIssuer
        ELSE IF cred.revoked THEN ErrCredentialRevoked
        ELSE Ok

\* revokeCredential(credentialId)
revokeCredential(sender, credentialId) ==
    LET status == revokeCredential_status(sender, credentialId)
    IN  /\ status = Ok => CredBudget
        /\ ret' = Call("revokeCredential", sender, <<credentialId>>, status, <<>>)
        /\ IF status = Ok
           THEN /\ _credentials' = [_credentials EXCEPT ![credentialId].revoked = TRUE]
                /\ credEvents' = Append(credEvents,
                       [name |-> "CredentialRevoked", args |-> <<credentialId>>])
           ELSE UNCHANGED <<_credentials, credEvents>>
        /\ UNCHANGED <<trustedIssuers, owner, vcVars, didVars, client, uiVars, walletVars>>

\* Variant: the revoked flag is not tested.
VerifiableCredential_verifyCredential_ignoresRevoked(credentialId) ==
    LET cred == _credentials[credentialId]
    IN  /\ ret' = Call("VerifiableCredential.verifyCredential", ZeroAddress,
                       <<credentialId>>, Ok,
                       IF cred.issuer = ZeroAddress
                       THEN <<FALSE, ZeroAddress, "">>
                       ELSE <<TRUE, cred.issuer, cred.ipfsHash>>)
        /\ UNCHANGED <<credVars, vcVars, didVars, client, uiVars, walletVars>>

\* VerifiableCredential.verifyCredential(credentialId), a view function
VerifiableCredential_verifyCredential(credentialId) ==
    LET cred == _credentials[credentialId]
    IN  /\ ret' = Call("VerifiableCredential.verifyCredential", ZeroAddress,
                       <<credentialId>>, Ok,
                       IF cred.issuer = ZeroAddress \/ cred.revoked
                       THEN <<FALSE, ZeroAddress, "">>
                       ELSE <<TRUE, cred.issuer, cred.ipfsHash>>)
        /\ UNCHANGED <<credVars, vcVars, didVars, client, uiVars, walletVars>>

\* -------------------------------------------------------- VCApplication
\* longest list of pending credentials
MaxPending == 3
\* batches the issuance page gets confirmed in a run
MaxBatches == 2

\* The value of a React state that holds no object, and of one that holds x.
null == <<>>
Ref(x) == <<x>>

\* The credential forms a user submits.
CredentialData == { 0, 1, 2 }

\* ethers.keccak256(ethers.toUtf8Bytes(JSON.stringify(credential))): the hash
\* of the credential built from one form, a value with no known preimage.
leafOf(data) == <<data>>

\* The texts shown by setMessage, by the place that sets them.
MsgPreparing == "preparing"
MsgSending == "sending"
MsgSuccess == "success"
MsgFailed == "failed"

\* handleIssueBatch is not running.
Idle == [pc |-> "idle", credentialsToIssue |-> <<>>, leaves |-> <<>>, merkleRoot |-> <<>>]

\* The first render: no contract, no pending credential.
AppInit ==
    /\ vcRegistryContract = null
    /\ credentialsToIssue = <<>>
    /\ isLoading = FALSE
    /\ message = ""
    /\ issueBatch = Idle
    /\ issuedBatches = <<>>

\* Web3Provider.connectWallet resolved with the signer of userAccount; the
\* effect on [signer] binds the contract to it.
Web3Provider_connectWallet(userAccount) ==
    /\ vcRegistryContract # Ref(userAccount)
    /\ vcRegistryContract' = Ref(userAccount)
    /\ UNCHANGED <<credentialsToIssue, isLoading, message, issueBatch, issuedBatches>>
    /\ UNCHANGED <<vcVars, didVars, credVars, client, walletVars, ret>>

\* addCredentialToBatch(credentialData): the form is shown once a signer is
\* connected; the handler of the latest render appends to the rendered list.
addCredentialToBatch(credentialData) ==
    /\ vcRegistryContract # null
    /\ Len(credentialsToIssue) < MaxPending
    /\ credentialsToIssue' = Append(credentialsToIssue, credentialData)
    /\ UNCHANGED <<vcRegistryContract, isLoading, message, issueBatch, issuedBatches>>
    /\ UNCHANGED <<vcVars, didVars, credVars, client, walletVars, ret>>

\* handleIssueBatch, up to its first await: the button is enabled when nothing
\* is loading and the list is not empty; the call keeps the list it was
\* rendered with.
handleIssueBatch ==
    /\ issueBatch.pc = "idle"
    /\ ~isLoading
    /\ vcRegistryContract # null
    /\ Len(credentialsToIssue) # 0
    /\ Len(issuedBatches) < MaxBatches
    /\ isLoading' = TRUE
    /\ message' = MsgPreparing
    /\ issueBatch' = [Idle EXCEPT !.pc = "leaves",
                                  !.credentialsToIssue = credentialsToIssue]
    /\ UNCHANGED <<vcRegistryContract, credentialsToIssue, issuedBatches>>
    /\ UNCHANGED <<vcVars, didVars, credVars, client, walletVars, ret>>

\* Promise.all(leaves) resolved: the tree is built from the captured list and
\* issueBatchCredentials(merkleRoot) is sent.
handleIssueBatch_leaves ==
    /\ issueBatch.pc = "leaves"
    /\ LET leaves == [i \in 1..Len(issueBatch.credentialsToIssue) |->
                         leafOf(issueBatch.credentialsToIssue[i])]
           tree == MerkleTree(leaves)
       IN  issueBatch' = [issueBatch EXCEPT !.pc = "send", !.leaves = leaves,
                                            !.merkleRoot = getHexRoot(tree)]
    /\ message' = MsgSending
    /\ UNCHANGED <<vcRegistryContract, credentialsToIssue, isLoading, issuedBatches>>
    /\ UNCHANGED <<vcVars, didVars, credVars, client, walletVars, ret>>

\* The roots of the batches confirmed so far.
IssuedRoots == { issuedBatches[i].merkleRoot : i \in 1..Len(issuedBatches) }

\* vcRegistryContract.issueBatchCredentials(merkleRoot) resolved with tx.
handleIssueBatch_sent ==
    /\ issueBatch.pc = "send"
    /\ issueBatch.merkleRoot \notin IssuedRoots
    /\ issueBatch' = [issueBatch EXCEPT !.pc = "wait"]
    /\ UNCHANGED <<vcRegistryContract, credentialsToIssue, isLoading, message,
                   issuedBatches>>
    /\ UNCHANGED <<vcVars, didVars, credVars, client, walletVars, ret>>

\* tx.wait() resolved: the success message is shown, the list is cleared, and
\* finally isLoading is reset.
handleIssueBatch_confirmed ==
    /\ issueBatch.pc = "wait"
    /\ message' = MsgSuccess
    /\ credentialsToIssue' = <<>>
    /\ issuedBatches' = Append(issuedBatches,
           [merkleRoot |-> issueBatch.merkleRoot, leaves |-> issueBatch.leaves])
    /\ isLoading' = FALSE
    /\ issueBatch' = Idle
    /\ UNCHANGED vcRegistryContract
    /\ UNCHANGED <<vcVars, didVars, credVars, client, walletVars, ret>>

\* The send or the wait rejected (the wallet refused, the call reverted): the
\* catch block shows the failure, and finally isLoading is reset.
handleIssueBatch_failed ==
    /\ issueBatch.pc \in {"send", "wait"}
    /\ message' = MsgFailed
    /\ isLoading' = FALSE
    /\ issueBatch' = Idle
    /\ UNCHANGED <<vcRegistryContract, credentialsToIssue, issuedBatches>>
    /\ UNCHANGED <<vcVars, didVars, credVars, client, walletVars, ret>>

\* ------------------------------------------------------------ useEthers
\* promises that may be pending at one time
MaxPromises == 2

\* new ethers.BrowserProvider(window.ethereum)
BrowserProvider == "BrowserProvider"

\* The text shown when connecting failed.
ErrConnectFailed == "connect failed"

\* The account lists the wallet answers eth_requestAccounts with and passes to
\* the accountsChanged listeners: no account, or the selected account.
AccountLists == { <<>> } \cup { <<a>> : a \in Address }

\* The first render of the hook; window.ethereum is present.
HookInit ==
    /\ useEthers = [provider |-> null, signer |-> null, account |-> null, error |-> null]
    /\ promises = <<>>

\* The pending promises without the one at position i.
Settled(i) == [j \in 1..(Len(promises) - 1) |-> IF j < i THEN promises[j] ELSE promises[j + 1]]

\* connectWallet, up to its first await: the provider is created and set, and
\* eth_requestAccounts is pending.
connectWallet ==
    /\ Len(promises) < MaxPromises
    /\ useEthers' = [useEthers EXCEPT !.provider = Ref(BrowserProvider)]
    /\ promises' = Append(promises, [await |-> "eth_requestAccounts", then |-> "connectWallet"])
    /\ ret' = Call("connectWallet", ZeroAddress, <<>>, Ok, <<>>)
    /\ UNCHANGED <<vcVars, didVars, credVars, client, uiVars>>

\* eth_requestAccounts resolved with `accounts`: with an account, it is set and
\* getSigner is pending; with none, only the error is reset.
connectWallet_accounts(i, accounts) ==
    /\ i \in 1..Len(promises)
    /\ promises[i].await = "eth_requestAccounts"
    /\ IF Len(accounts) > 0
       THEN /\ useEthers' = [useEthers EXCEPT !.account = Ref(accounts[1])]
            /\ promises' = Append(Settled(i),
                   [await |-> "getSigner", then |-> "connectWallet"])
       ELSE /\ useEthers' = [useEthers EXCEPT !.error = null]
            /\ promises' = Settled(i)
    /\ UNCHANGED <<vcVars, didVars, credVars, client, uiVars, ret>>

\* browserProvider.getSigner() of connectWallet resolved with the signer of
\* `address`: the signer is set and the error is reset.
connectWallet_signer(i, address) ==
    /\ i \in 1..Len(promises)
    /\ promises[i] = [await |-> "getSigner", then |-> "connectWallet"]
    /\ useEthers' = [useEthers EXCEPT !.signer = Ref(address), !.error = null]
    /\ promises' = Settled(i)
    /\ UNCHANGED <<vcVars, didVars, credVars, client, uiVars, ret>>

\* An await of connectWallet rejected: the catch block sets the error.
connectWallet_rejected(i) ==
    /\ i \in 1..Len(promises)
    /\ promises[i].then = "connectWallet"
    /\ useEthers' = [useEthers EXCEPT !.error = Ref(ErrConnectFailed)]
    /\ promises' = Settled(i)
    /\ UNCHANGED <<vcVars, didVars, credVars, client, uiVars, ret>>

\* handleAccountsChanged(accounts), the listener of the latest render: with an
\* account, it is set and, if there is a provider, getSigner().then(setSigner)
\* is pending; with none, account, signer and provider are reset.
handleAccountsChanged(accounts) ==
    /\ Len(accounts) > 0 /\ useEthers.provider # null => Len(promises) < MaxPromises
    /\ IF Len(accounts) > 0
       THEN /\ useEthers' = [useEthers EXCEPT !.account = Ref(accounts[1])]
            /\ promises' = IF useEthers.provider # null
                           THEN Append(promises,
                                    [await |-> "getSigner", then |-> "setSigner"])
                           ELSE promises
       ELSE /\ useEthers' = [useEthers EXCEPT !.account = null, !.signer = null,
                                              !.provider = null]
            /\ UNCHANGED promises
    /\ ret' = Call("accountsChanged", ZeroAddress, <<accounts>>, Ok, <<>>)
    /\ UNCHANGED <<vcVars, didVars, credVars, client, uiVars>>

\* provider.getSigner() started by the listener resolved: .then(setSigner).
handleAccountsChanged_signer(i, address) ==
    /\ i \in 1..Len(promises)
    /\ promises[i] = [await |-> "getSigner", then |-> "setSigner"]
    /\ useEthers' = [useEthers EXCEPT !.signer = Ref(address)]
    /\ promises' = Settled(i)
    /\ UNCHANGED <<vcVars, didVars, credVars, client, uiVars, ret>>

\* provider.getSigner() started by the listener rejected: nothing handles it.
handleAccountsChanged_rejected(i) ==
    /\ i \in 1..Len(promises)
    /\ promises[i] = [await |-> "getSigner", then |-> "setSigner"]
    /\ promises' = Settled(i)
    /\ UNCHANGED useEthers
    /\ UNCHANGED <<vcVars, didVars, credVars, client, uiVars, ret>>

\* ------------------------------------------------------- Merkle client
\* All leaf sequences of length 1..n over the credential hashes.
LeafSeqs(n) == UNION { [1..k -> Leaves] : k \in 1..n }

\* The leaf sequences of the other trees a proof is checked against.
OtherSeqs == LeafSeqs(2)

NoCheck == [leaf |-> <<>>, root |-> <<>>, valid |-> FALSE, done |-> FALSE]

\* The client holds its leaves; nothing is built yet.
ClientStart(leafSeq) ==
    [leaves |-> leafSeq, layers |-> <<>>, merkleRoot |-> <<>>,
     leaf |-> <<>>, proof |-> <<>>, hasProof |-> FALSE,
     own |-> NoCheck, cross |-> NoCheck]

ClientInit == client = ClientStart(<<>>)

\* tree = new MerkleTree(leaves, keccak256, { sortPairs: true }); root = tree.getHexRoot()
BuildTree ==
    /\ client.leaves # <<>>
    /\ client.layers = <<>>
    /\ client' = [client EXCEPT !.layers = MerkleTree(client.leaves),
                                !.merkleRoot = getHexRoot(MerkleTree(client.leaves))]
    /\ UNCHANGED <<vcVars, didVars, credVars, uiVars, walletVars, ret>>

\* proof = tree.getHexProof(leaf)
GetHexProof(leaf) ==
    /\ client.layers # <<>>
    /\ client' = [client EXCEPT !.leaf = leaf,
                                !.proof = getHexProof(client.layers, leaf),
                                !.hasProof = TRUE,
                                !.own = NoCheck, !.cross = NoCheck]
    /\ UNCHANGED <<vcVars, didVars, credVars, uiVars, walletVars, ret>>

\* The proof is presented with `leaf` and checked against the client's own root.
VerifyOwnRoot(leaf) ==
    /\ client.hasProof
    /\ client' = [client EXCEPT
           !.own = [leaf |-> leaf, root |-> client.merkleRoot,
                    valid |-> verifyProof(leaf, client.merkleRoot, client.proof),
                    done |-> TRUE],
           !.cross = NoCheck]
    /\ UNCHANGED <<vcVars, didVars, credVars, uiVars, walletVars, ret>>

\* The same leaf and proof are checked against the root of another tree.
VerifyOtherRoot(otherSeq) ==
    /\ client.own.done
    /\ LET root == getHexRoot(MerkleTree(otherSeq))
       IN  client' = [client EXCEPT
               !.cross = [leaf |-> client.own.leaf, root |-> root,
                          valid |-> verifyProof(client.own.leaf, root, client.proof),
                          done |-> TRUE]]
    /\ UNCHANGED <<vcVars, didVars, credVars, uiVars, walletVars, ret>>

ClientNext ==
    \/ BuildTree
    \/ \E leaf \in Leaves \cup {nonExistentLeaf} : GetHexProof(leaf)
    \/ \E leaf \in Leaves \cup {nonExistentLeaf} : VerifyOwnRoot(leaf)
    \/ \E otherSeq \in OtherSeqs : VerifyOtherRoot(otherSeq)

\* The client starts from any non-empty leaf sequence of bounded length.
InitMerkle ==
    /\ VCInit
    /\ DIDInit
    /\ CredInit
    /\ AppInit
    /\ HookInit
    /\ \E leafSeq \in LeafSeqs(MaxLeaves) : client = ClientStart(leafSeq)
    /\ ret = Call("constructor", Deployer, <<>>, Ok, <<>>)

\* ------------------------------------------------------- specification
Init ==
    /\ VCInit
    /\ DIDInit
    /\ ClientInit
    /\ CredInit
    /\ AppInit
    /\ HookInit
    /\ ret = Call("constructor", Deployer, <<>>, Ok, <<>>)

VCNext ==
    \/ \E sender \in Address, account \in Address : grantIssuerRole(sender, account)
    \/ \E sender \in Address, account \in Address : revokeIssuerRole(sender, account)
    \/ \E sender \in Address, root \in RootUniverse : issueBatchCredentials(sender, root)
    \/ \E sender \in Address, leaf \in LeafArgs, root \in RootUniverse :
          revokeBatchCredential(sender, leaf, root)
    \/ \E leaf \in LeafArgs \cup RootUniverse, root \in RootUniverse, proof \in ProofArgs :
          verifyCredential(leaf, root, proof)

DIDNext ==
    \/ \E sender \in Address, cid \in Cids : createDID(sender, cid)
    \/ \E sender \in Address, did \in DIDUniverse, cid \in Cids :
          updateDID(sender, did, cid)
    \/ \E sender \in Address, did \in DIDUniverse : revokeDID(sender, did)
    \/ \E did \in DIDUniverse : resolveDID(did)
    \/ \E _owner \in Address : getDIDsByOwner(_owner)

\* The state-changing functions of the two registries; identifiers are created
\* with the first cid and updated to the second.
LedgerNext ==
    \/ \E sender \in Address, root \in RootUniverse : issueBatchCredentials(sender, root)
    \/ \E sender \in Address, leaf \in LeafArgs, root \in RootUniverse :
          revokeBatchCredential(sender, leaf, root)
    \/ \E sender \in Address, account \in Address : grantIssuerRole(sender, account)
    \/ \E sender \in Address : createDID(sender, ipfsCid1)
    \/ \E sender \in Address, did \in DIDUniverse : updateDID(sender, did, ipfsCid2)
    \/ \E sender \in Address, did \in DIDUniverse : revokeDID(sender, did)

\* The role functions of VCRegistry, its own and those it inherits.
RolesNext ==
    \/ \E sender \in Address, account \in Address : grantIssuerRole(sender, account)
    \/ \E sender \in Address, account \in Address : revokeIssuerRole(sender, account)
    \/ \E sender \in Address, role \in Roles, account \in Address :
          grantRole(sender, role, account)
    \/ \E sender \in Address, role \in Roles, account \in Address :
          revokeRole(sender, role, account)
    \/ \E sender \in Address, role \in Roles, account \in Address :
          renounceRole(sender, role, account)

\* The external functions of the VerifiableCredential contract.
CredNext ==
    \/ \E sender \in Address, issuer \in Address : addIssuer(sender, issuer)
    \/ \E sender \in Address, issuer \in Address : removeIssuer(sender, issuer)
    \/ \E sender \in Address, credentialId \in CredentialIds,
          subjectDID \in SubjectDIDs, ipfsHash \in Cids :
          issueCredential(sender, credentialId, subjectDID, ipfsHash)
    \/ \E sender \in Address, credentialId \in CredentialIds :
          revokeCredential(sender, credentialId)
    \/ \E credentialId \in CredentialIds :
          VerifiableCredential_verifyCredential(credentialId)

\* The events of the issuance page.
AppNext ==
    \/ \E userAccount \in Address : Web3Provider_connectWallet(userAccount)
    \/ \E credentialData \in CredentialData : addCredentialToBatch(credentialData)
    \/ handleIssueBatch
    \/ handleIssueBatch_leaves
    \/ handleIssueBatch_sent
    \/ handleIssueBatch_confirmed
    \/ handleIssueBatch_failed

\* The calls of the useEthers hook, the wallet's events and the settling of
\* the pending promises, in any order.
HookNext ==
    \/ connectWallet
    \/ \E i \in 1..MaxPromises, accounts \in AccountLists : connectWallet_accounts(i, accounts)
    \/ \E i \in 1..MaxPromises, address \in Address : connectWallet_signer(i, address)
    \/ \E i \in 1..MaxPromises : connectWallet_rejected(i)
    \/ \E accounts \in AccountLists : handleAccountsChanged(accounts)
    \/ \E i \in 1..MaxPromises, address \in Address : handleAccountsChanged_signer(i, address)
    \/ \E i \in 1..MaxPromises : handleAccountsChanged_rejected(i)

Next == VCNext

\* The batch credential registry.
Spec == Init /\ [][Next]_vars
\* The identifier registry.
SpecDID == Init /\ [][DIDNext]_vars
\* Both registries, state-changing calls only.
SpecLedgers == Init /\ [][LedgerNext]_vars
\* The role assignments of VCRegistry.
SpecRoles == Init /\ [][RolesNext]_vars
\* The single-credential contract.
SpecCredential == Init /\ [][CredNext]_vars
\* The issuance page.
SpecApp == Init /\ [][AppNext]_vars
\* The useEthers hook and the wallet.
SpecHook == Init /\ [][HookNext]_vars
\* The Merkle tree builder, the proof generator and the proof check.
SpecMerkle == InitMerkle /\ [][ClientNext]_vars

\* ---------------------------------------------------------------- claims
\* The log holds the event `name` with arguments `args`.
Emitted(log, name, args) ==
    \E i \in 1..Len(log) : log[i].name = name /\ log[i].args = args

\* The last call was verifyCredential(leaf, root, proof).
IsVerify == ret.op = "verifyCredential"
vLeaf == ret.args[1]
vRoot == ret.args[2]
vProof == ret.args[3]
Rejected == ret.out.valid = FALSE /\ ret.out.issuer = ZeroAddress

\* The leaf was revoked by a successful revokeBatchCredential(leaf, root).
WasRevoked(leaf) ==
    \E root \in RootUniverse, sender \in Address :
        Emitted(vcEvents, "BatchCredentialRevoked", <<leaf, root, sender>>)

\* C1: in every state after a successful revokeBatchCredential(leaf, root),
\* verifyCredential(leaf, r, p) returns (false, zero address) for every root r
\* and every proof p, also for a published root with a proof that recomputes
\* to it.
C1_RevocationDominates ==
    (IsVerify /\ WasRevoked(vLeaf)) => Rejected

\* C1 witness: a revoked leaf is verified under a published root with a proof
\* that recomputes to that root, and is rejected.
C1_Witness ==
    /\ IsVerify
    /\ WasRevoked(vLeaf)
    /\ merkleRootToIssuer[vRoot] # ZeroAddress
    /\ MerkleProof_verify(vProof, vRoot, vLeaf)
    /\ Len(vProof) > 0
    /\ Rejected

\* C2: for a root published by issuer I and a leaf that is not revoked,
\* verifyCredential with a proof that recomputes to the root returns (true, I),
\* I being the address of the BatchCredentialsIssued event of that root.
C2_ValidCredentialVerifies ==
    (/\ IsVerify
     /\ merkleRootToIssuer[vRoot] # ZeroAddress
     /\ ~isBatchCredentialRevoked[vLeaf]
     /\ MerkleProof_verify(vProof, vRoot, vLeaf))
    => /\ ret.out.valid = TRUE
       /\ ret.out.issuer = merkleRootToIssuer[vRoot]
       /\ Emitted(vcEvents, "BatchCredentialsIssued", <<vRoot, ret.out.issuer>>)

\* C2 witness: a credential of the three-leaf batch published by the second
\* account verifies with that account as issuer.
C2_Witness ==
    /\ IsVerify
    /\ vLeaf = leaf2
    /\ Len(vProof) = 2
    /\ ret.out.valid = TRUE
    /\ ret.out.issuer = User1

\* C3 as stated: issueBatchCredentials(root) on a root that already has a
\* recorded issuer fails with "Merkle root already exists" whoever the caller
\* is, and the recorded issuer is unchanged.
C3_DuplicateRootAnyCaller ==
    [][\A sender \in Address, root \in RootUniverse :
        (merkleRootToIssuer[root] # ZeroAddress /\ issueBatchCredentials(sender, root))
        => /\ ret'.status = ErrRootExists
           /\ merkleRootToIssuer'[root] = merkleRootToIssuer[root]]_vars

\* C3 amended: issueBatchCredentials(root) on a root that already has a
\* recorded issuer fails whoever the caller is: with "Merkle root already
\* exists" when the caller holds ISSUER_ROLE, with the access-control error
\* when it does not; the recorded issuer is unchanged and no event is emitted.
C3_DuplicateRootRejected ==
    [][\A sender \in Address, root \in RootUniverse :
        (merkleRootToIssuer[root] # ZeroAddress /\ issueBatchCredentials(sender, root))
        => /\ ret'.status = IF hasRole(ISSUER_ROLE, sender)
                            THEN ErrRootExists ELSE ErrUnauthorizedAccount
           /\ merkleRootToIssuer' = merkleRootToIssuer
           /\ vcEvents' = vcEvents]_vars

\* C3 witness: a second holder of ISSUER_ROLE sends a root that the deployer
\* has published, and is refused as a duplicate.
C3_Witness ==
    /\ ret.op = "issueBatchCredentials"
    /\ ret.sender = User1
    /\ ret.status = ErrRootExists
    /\ merkleRootToIssuer[ret.args[1]] = Deployer

\* C4: revokeBatchCredential(leaf, root) succeeds only when the caller is the
\* issuer recorded for root; any other caller, even a holder of ISSUER_ROLE,
\* fails with "Caller is not the batch issuer" and the revocation mapping is
\* unchanged.
C4_OnlyBatchIssuerRevokes ==
    [][\A sender \in Address, leaf \in LeafArgs, root \in RootUniverse :
        revokeBatchCredential(sender, leaf, root)
        => /\ ret'.status = Ok => sender = merkleRootToIssuer[root]
           /\ (merkleRootToIssuer[root] # ZeroAddress
                  /\ sender # merkleRootToIssuer[root])
              => /\ ret'.status = ErrNotBatchIssuer
                 /\ isBatchCredentialRevoked' = isBatchCredentialRevoked]_vars

\* C4 witness: a holder of ISSUER_ROLE that did not publish the root tries to
\* revoke an unrevoked leaf under it and is refused.
C4_Witness ==
    /\ ret.op = "revokeBatchCredential"
    /\ ret.status = ErrNotBatchIssuer
    /\ hasRole(ISSUER_ROLE, ret.sender)
    /\ merkleRootToIssuer[ret.args[2]] # ZeroAddress
    /\ ~isBatchCredentialRevoked[ret.args[1]]

\* C5: verifyCredential checks (1) revocation of the leaf, (2) existence of the
\* root, (3) the Merkle proof, in this order, and returns at the first check
\* that fails; it returns (true, issuer of the root) exactly when all three
\* pass and (false, zero address) otherwise.
C5_ThreeStageOrder ==
    IsVerify =>
        LET revoked == isBatchCredentialRevoked[vLeaf]
            issuer == merkleRootToIssuer[vRoot]
            proved == MerkleProof_verify(vProof, vRoot, vLeaf)
        IN  /\ ret.out.at = "revoked" <=> revoked
            /\ ret.out.at = "unknownRoot" <=> (~revoked /\ issuer = ZeroAddress)
            /\ ret.out.at = "invalidProof" <=>
                   (~revoked /\ issuer # ZeroAddress /\ ~proved)
            /\ ret.out.at = "valid" <=>
                   (~revoked /\ issuer # ZeroAddress /\ proved)
            /\ IF ret.out.at = "valid"
               THEN ret.out.valid = TRUE /\ ret.out.issuer = issuer
               ELSE Rejected

\* C5 witness: a revoked leaf is verified under a root that was never published:
\* the first check answers.
C5_Witness ==
    /\ IsVerify
    /\ isBatchCredentialRevoked[vLeaf]
    /\ merkleRootToIssuer[vRoot] = ZeroAddress
    /\ ret.out.at = "revoked"
\* The elements of a leaf sequence.
Elems(leafSeq) == { leafSeq[i] : i \in 1..Len(leafSeq) }

\* C6: for every non-empty leaf sequence, of odd or even length, and every leaf
\* in it, the proof the tree yields for the leaf verifies against the root of
\* the tree.
C6_MerkleRoundTrip ==
    (/\ client.own.done
     /\ client.own.leaf = client.leaf
     /\ client.leaf \in Elems(client.leaves))
    => client.own.valid

\* C6 witness: the last of five leaves, carried up unpaired through two layers,
\* verifies with the one-element proof the tree yields for it.
C6_Witness ==
    /\ client.own.done
    /\ Len(client.leaves) = 5
    /\ client.own.leaf = client.leaves[5]
    /\ client.leaf = client.leaves[5]
    /\ client.leaves[5] \notin { client.leaves[i] : i \in 1..4 }
    /\ Len(client.proof) = 1
    /\ client.own.valid

\* C7: a leaf and proof that verify against a root r1 do not verify against any
\* other root r2 # r1 built from other leaves.
C7_CrossRootRejects ==
    (/\ client.cross.done
     /\ client.own.valid
     /\ client.cross.root # client.own.root)
    => ~client.cross.valid

\* C7 witness: a leaf with a non-empty proof verifies against its own root and
\* is refused against the root of another tree that contains the same leaf.
C7_Witness ==
    /\ client.cross.done
    /\ client.own.valid
    /\ Len(client.proof) >= 1
    /\ client.cross.root # client.own.root
    /\ client.cross.root # client.own.leaf
    /\ ~client.cross.valid

\* The batches whose root is `root`.
BatchesOf(root) == { b \in Batches : RootOf[b] = root }

\* C8: under a published root, verifyCredential returns (false, zero address)
\* when the proof does not recompute to the root; this is the case for a leaf of
\* the batch presented with the proof of a different leaf of the batch, and for
\* a hash that is no node of the batch's tree presented with the empty proof.
C8_BadProofRejected ==
    (IsVerify /\ merkleRootToIssuer[vRoot] # ZeroAddress) =>
        /\ ~MerkleProof_verify(vProof, vRoot, vLeaf) => Rejected
        /\ \A b \in BatchesOf(vRoot) :
              /\ (/\ vLeaf \in Elems(b)
                  /\ \E other \in Elems(b) \ {vLeaf} :
                        vProof = getHexProof(TreeOf[b], other))
                 => Rejected
              /\ (vLeaf \notin NodesOf(TreeOf[b]) /\ vProof = <<>>) => Rejected

\* C8 witness: the first leaf of the published three-leaf batch is presented
\* with the proof of the second leaf, and is rejected although it is not revoked.
C8_Witness ==
    /\ IsVerify
    /\ vRoot = RootOf[<<leaf1, leaf2, leaf3>>]
    /\ merkleRootToIssuer[vRoot] # ZeroAddress
    /\ vLeaf = leaf1
    /\ ~isBatchCredentialRevoked[vLeaf]
    /\ vProof = getHexProof(TreeOf[<<leaf1, leaf2, leaf3>>], leaf2)
    /\ Rejected

\* C9: verifyCredential is total: in every reachable state it can be called with
\* every leaf, root and proof, it returns a boolean verdict without an error,
\* and the verdict is false whenever the proof does not recompute to the root.
C9_VerifyTotal ==
    /\ \A leaf \in LeafArgs \cup RootUniverse, root \in RootUniverse, proof \in ProofArgs :
          ENABLED verifyCredential(leaf, root, proof)
    /\ IsVerify =>
          /\ ret.status = Ok
          /\ ret.out.valid \in BOOLEAN
          /\ ~MerkleProof_verify(vProof, vRoot, vLeaf) => Rejected

\* C9 witness: a revoked leaf is verified with the empty proof under a root that
\* was never published; the call returns false without an error.
C9_Witness ==
    /\ IsVerify
    /\ vProof = <<>>
    /\ merkleRootToIssuer[vRoot] = ZeroAddress
    /\ isBatchCredentialRevoked[vLeaf]
    /\ ret.status = Ok
    /\ Rejected

MutatingOps ==
    { "issueBatchCredentials", "revokeBatchCredential",
      "createDID", "updateDID", "revokeDID" }

\* C10: a state-changing call of either registry that fails a precondition
\* leaves the root-to-issuer map, the revocation set, the roles, the DID
\* records, the nonces, the owner index and both event logs unchanged.
C10_FailedCallsChangeNothing ==
    [][(ret'.op \in MutatingOps /\ ret'.status # Ok)
        => UNCHANGED <<vcVars, didVars>>]_vars

\* C10 witness: after successful calls on both registries, an update of an
\* existing DID by an account that is not its controller has failed.
C10_Witness ==
    /\ ret.op = "updateDID"
    /\ ret.status = ErrNotController
    /\ Len(vcEvents) >= 1
    /\ Len(didEvents) >= 1

\* C11: issueBatchCredentials succeeds only for a caller that holds ISSUER_ROLE
\* when the call is made; a call by any other account fails and leaves the
\* root-to-issuer mapping as it was.
C11_OnlyIssuerIssues ==
    [][\A sender \in Address, root \in RootUniverse :
        issueBatchCredentials(sender, root)
        => /\ ret'.status = Ok => hasRole(ISSUER_ROLE, sender)
           /\ ~hasRole(ISSUER_ROLE, sender)
              => /\ ret'.status # Ok
                 /\ merkleRootToIssuer' = merkleRootToIssuer
                 /\ vcEvents' = vcEvents]_vars

\* C11 witness: the deployer, whose ISSUER_ROLE has been revoked, sends a root
\* that nobody has published; the call fails and the root stays unrecorded.
C11_Witness ==
    /\ ret.op = "issueBatchCredentials"
    /\ ret.sender = Deployer
    /\ ~hasRole(ISSUER_ROLE, Deployer)
    /\ ret.status = ErrUnauthorizedAccount
    /\ merkleRootToIssuer[ret.args[1]] = ZeroAddress

\* C12: revokeBatchCredential(leaf, root) tests its preconditions in the order
\* root recorded, caller is the recorded issuer, leaf not yet revoked; the first
\* that fails decides the error, and the leaf is marked revoked only when all
\* three hold.
C12_RevokePreconditionOrder ==
    [][\A sender \in Address, leaf \in LeafArgs, root \in RootUniverse :
        revokeBatchCredential(sender, leaf, root)
        => LET issuer == merkleRootToIssuer[root]
               known == issuer # ZeroAddress
               revoked == isBatchCredentialRevoked[leaf]
           IN  /\ ~known => ret'.status = ErrRootUnknown
               /\ (known /\ sender # issuer) => ret'.status = ErrNotBatchIssuer
               /\ (known /\ sender = issuer /\ revoked)
                  => ret'.status = ErrAlreadyRevoked
               /\ (known /\ sender = issuer /\ ~revoked)
                  => /\ ret'.status = Ok
                     /\ isBatchCredentialRevoked' =
                            [isBatchCredentialRevoked EXCEPT ![leaf] = TRUE]
               /\ ret'.status # Ok
                  => isBatchCredentialRevoked' = isBatchCredentialRevoked]_vars

\* C12 witness: an account that is not the issuer of the root tries to revoke a
\* leaf that is already revoked: two preconditions fail and the earlier one is
\* reported.
C12_Witness ==
    /\ ret.op = "revokeBatchCredential"
    /\ ret.status = ErrNotBatchIssuer
    /\ isBatchCredentialRevoked[ret.args[1]]
    /\ merkleRootToIssuer[ret.args[2]] # ZeroAddress

\* C13 as stated: a revoked leaf stays revoked in every later state, and a
\* further revokeBatchCredential for it, under any root, fails with
\* "Credential already revoked".
C13_SecondRevokeAlreadyRevoked ==
    [][/\ \A l \in Bytes32 :
             isBatchCredentialRevoked[l] => isBatchCredentialRevoked'[l]
       /\ \A sender \in Address, leaf \in LeafArgs, root \in RootUniverse :
             (isBatchCredentialRevoked[leaf] /\ revokeBatchCredential(sender, leaf, root))
             => ret'.status = ErrAlreadyRevoked]_vars

\* C13 amended: a revoked leaf stays revoked in every later state, and a further
\* revokeBatchCredential for it fails under any root and for any caller, without
\* an event: with "Credential already revoked" when the root is recorded and the
\* caller is its issuer, with the error of the earlier precondition otherwise.
C13_RevocationPermanent ==
    [][/\ \A l \in Bytes32 :
             isBatchCredentialRevoked[l] => isBatchCredentialRevoked'[l]
       /\ \A sender \in Address, leaf \in LeafArgs, root \in RootUniverse :
             (isBatchCredentialRevoked[leaf] /\ revokeBatchCredential(sender, leaf, root))
             => /\ ret'.status # Ok
                /\ vcEvents' = vcEvents
                /\ ret'.status =
                      IF merkleRootToIssuer[root] = ZeroAddress THEN ErrRootUnknown
                      ELSE IF merkleRootToIssuer[root] # sender THEN ErrNotBatchIssuer
                      ELSE ErrAlreadyRevoked]_vars

\* C13 witness: the issuer of two roots revokes a leaf under one of them and
\* then tries to revoke it under the other; the second call is refused as
\* already revoked.
C13_Witness ==
    /\ ret.op = "revokeBatchCredential"
    /\ ret.status = ErrAlreadyRevoked
    /\ isBatchCredentialRevoked[ret.args[1]]
    /\ \E root \in RootUniverse \ {ret.args[2]} :
          Emitted(vcEvents, "BatchCredentialRevoked", <<ret.args[1], root, ret.sender>>)

\* C14: once merkleRootToIssuer[root] holds a non-zero issuer it holds that
\* same issuer in every later state.
C14_BatchRecordWriteOnce ==
    [][\A root \in Bytes32 :
        merkleRootToIssuer[root] # ZeroAddress
        => merkleRootToIssuer'[root] = merkleRootToIssuer[root]]_vars

\* C14 witness: a root published by a second issuer is sent again by the
\* deployer, who holds ISSUER_ROLE; the record still names the second issuer.
C14_Witness ==
    /\ ret.op = "issueBatchCredentials"
    /\ ret.sender = Deployer
    /\ hasRole(ISSUER_ROLE, Deployer)
    /\ ret.status = ErrRootExists
    /\ merkleRootToIssuer[ret.args[1]] = User1

\* C15: after a successful revokeBatchCredential(leaf, r1), verifyCredential
\* (leaf, r2, proof) returns (false, zero address) for every other published
\* root r2 under which the proof is valid for the leaf.
C15_RevocationKeyedByLeaf ==
    (/\ IsVerify
     /\ \E r1 \in RootUniverse \ {vRoot}, sender \in Address :
           Emitted(vcEvents, "BatchCredentialRevoked", <<vLeaf, r1, sender>>)
     /\ merkleRootToIssuer[vRoot] # ZeroAddress
     /\ MerkleProof_verify(vProof, vRoot, vLeaf))
    => Rejected

\* C15 witness: leaf1, revoked under the root of the one-leaf batch only, is
\* verified with its valid two-element proof under the published root of the
\* three-leaf batch, and is rejected.
C15_Witness ==
    /\ IsVerify
    /\ vLeaf = leaf1
    /\ vRoot = RootOf[<<leaf1, leaf2, leaf3>>]
    /\ merkleRootToIssuer[vRoot] # ZeroAddress
    /\ Len(vProof) = 2
    /\ MerkleProof_verify(vProof, vRoot, vLeaf)
    /\ \A sender \in Address :
          ~Emitted(vcEvents, "BatchCredentialRevoked", <<vLeaf, vRoot, sender>>)
    /\ Rejected

\* The positions of the log at which an identifier was registered.
Registrations(log) == { i \in 1..Len(log) : log[i].name = "DIDRegistered" }

\* The identifiers registered by `owner`, as the log records them.
RegisteredBy(log, _owner) ==
    { log[i].args[1] : i \in { j \in Registrations(log) : log[j].args[2] = _owner } }

\* The controller that registered `did`, as the log records it.
CreatorOf(log, did) ==
    log[CHOOSE i \in Registrations(log) : log[i].args[1] = did].args[2]

\* The cid the log records last for `did` before position `n`.
LastCidBefore(log, did, n) ==
    LET S == { i \in 1..(n - 1) :
                 /\ log[i].name \in {"DIDRegistered", "DIDUpdated"}
                 /\ log[i].args[1] = did }
        last == CHOOSE i \in S : \A j \in S : j <= i
    IN  IF log[last].name = "DIDRegistered" THEN log[last].args[3] ELSE log[last].args[2]

\* C16: every successful createDID yields an identifier distinct from all
\* identifiers created before, by any controller; the list getDIDsByOwner
\* returns for a controller holds exactly the identifiers that controller
\* created, each once.
C16_IdentifiersDistinctAndListed ==
    /\ \A i, j \in Registrations(didEvents) :
          i # j => didEvents[i].args[1] # didEvents[j].args[1]
    /\ \A _owner \in Address :
          /\ Elems(ownerToDIDs[_owner]) = RegisteredBy(didEvents, _owner)
          /\ Len(ownerToDIDs[_owner]) = Cardinality(RegisteredBy(didEvents, _owner))
    /\ ret.op = "getDIDsByOwner"
       => /\ ret.status = Ok
          /\ Elems(ret.out) = RegisteredBy(didEvents, ret.args[1])

\* C16 witness: a controller has created two identifiers and another
\* controller one; the list returned for the first holds its two distinct
\* identifiers.
C16_Witness ==
    /\ ret.op = "getDIDsByOwner"
    /\ ret.args[1] = User1
    /\ Len(ret.out) = 2
    /\ ret.out[1] # ret.out[2]
    /\ Len(ownerToDIDs[Deployer]) = 1

\* C17: after a successful revokeDID(id), resolveDID(id) succeeds and returns
\* the controller that created id, the cid set by the last successful createDID
\* or updateDID before the revocation, and the status Revoked.
C17_ResolveAfterRevoke ==
    \A n \in 1..Len(didEvents) :
        (/\ ret.op = "resolveDID"
         /\ didEvents[n].name = "DIDRevoked"
         /\ didEvents[n].args[1] = ret.args[1])
        => /\ ret.status = Ok
           /\ ret.out = << CreatorOf(didEvents, ret.args[1]),
                           LastCidBefore(didEvents, ret.args[1], n),
                           Revoked >>

\* C17 witness: an identifier created with the first cid, updated to the second
\* and then revoked resolves to its controller, the second cid and Revoked.
C17_Witness ==
    /\ ret.op = "resolveDID"
    /\ ret.status = Ok
    /\ ret.out = <<User1, ipfsCid2, Revoked>>
    /\ Emitted(didEvents, "DIDRegistered", <<ret.args[1], User1, ipfsCid1>>)
    /\ Emitted(didEvents, "DIDRevoked", <<ret.args[1]>>)

\* A record exists for `did` and its status is Revoked.
IsRevokedDID(did) == dids[did].controller # ZeroAddress /\ dids[did].status = Revoked

\* The last call was updateDID / revokeDID, sent by uSender for uDid.
IsUpdate == ret.op = "updateDID"
IsRevokeDID == ret.op = "revokeDID"
uSender == ret.sender
uDid == ret.args[1]

\* C18: updateDID(id, newCid) fails with "DID does not exist" when id has no
\* record, else with "Caller is not the controller" when the caller is not the
\* record's controller, else with "DID is revoked" when the status is not
\* Active; otherwise it sets the cid to newCid and changes nothing else, and
\* resolveDID returns the cid last set.
C18_UpdatePreconditionsAndEffect ==
    [][/\ IsUpdate'
          => LET doc == dids[uDid']
                 exists == doc.controller # ZeroAddress
                 newCid == ret'.args[2]
             IN  /\ ~exists => ret'.status = ErrDIDNotExist
                 /\ (exists /\ doc.controller # uSender')
                    => ret'.status = ErrNotController
                 /\ (exists /\ doc.controller = uSender' /\ doc.status # Active)
                    => ret'.status = ErrDIDRevoked
                 /\ (exists /\ doc.controller = uSender' /\ doc.status = Active)
                    => /\ ret'.status = Ok
                       /\ dids' = [dids EXCEPT ![uDid'] =
                              [controller |-> doc.controller, cid |-> newCid,
                               status |-> doc.status]]
                       /\ didEvents' = Append(didEvents,
                              [name |-> "DIDUpdated", args |-> <<uDid', newCid>>])
                 /\ ret'.status # Ok => (dids' = dids /\ didEvents' = didEvents)
                 /\ UNCHANGED <<nonces, ownerToDIDs>>
       /\ (ret'.op = "resolveDID" /\ ret'.status = Ok)
          => ret'.out[2] =
                LastCidBefore(didEvents', ret'.args[1], Len(didEvents') + 1)]_vars

\* C18 witness: the controller has replaced the cid its identifier was created
\* with; the record holds the new cid, the same controller and status Active.
C18_Witness ==
    /\ ret.op = "updateDID"
    /\ ret.status = Ok
    /\ ret.args[2] = ipfsCid2
    /\ Emitted(didEvents, "DIDRegistered", <<ret.args[1], ret.sender, ipfsCid1>>)
    /\ dids[ret.args[1]] =
          [controller |-> ret.sender, cid |-> ipfsCid2, status |-> Active]

\* The parts of C19 that the statement and its amendment share: a record is
\* created Active, its status changes only from Active to Revoked, and a
\* revoked record never changes again.
StatusOneWay ==
    \A did \in DIDUniverse :
        /\ (dids[did].controller = ZeroAddress /\ dids'[did].controller # ZeroAddress)
           => dids'[did].status = Active
        /\ dids'[did].status # dids[did].status
           => (dids[did].status = Active /\ dids'[did].status = Revoked)
        /\ IsRevokedDID(did) => dids'[did] = dids[did]

\* C19 as stated: the status is one-way, and a second revokeDID and any
\* updateDID on a revoked identifier fail with the already-revoked error.
C19_RevokedCallsAlreadyRevoked ==
    [][/\ StatusOneWay
       /\ (IsRevokeDID' /\ IsRevokedDID(uDid'))
          => ret'.status = ErrDIDAlreadyRevoked
       /\ (IsUpdate' /\ IsRevokedDID(uDid'))
          => ret'.status = ErrDIDRevoked]_vars

\* C19 amended: the status is one-way, and a second revokeDID and any updateDID
\* on a revoked identifier fail for every caller: with the already-revoked
\* error when the caller is the controller, with "Caller is not the controller"
\* otherwise; the cid of a revoked identifier never changes.
C19_StatusOneWay ==
    [][/\ StatusOneWay
       /\ (IsRevokeDID' /\ IsRevokedDID(uDid'))
          => ret'.status = IF dids[uDid'].controller = uSender'
                            THEN ErrDIDAlreadyRevoked ELSE ErrNotController
       /\ (IsUpdate' /\ IsRevokedDID(uDid'))
          => ret'.status = IF dids[uDid'].controller = uSender'
                            THEN ErrDIDRevoked ELSE ErrNotController]_vars

\* C19 witness: the controller of a revoked identifier tries to update it and
\* is refused; the record keeps the cid it was created with.
C19_Witness ==
    /\ ret.op = "updateDID"
    /\ ret.status = ErrDIDRevoked
    /\ ret.args[2] = ipfsCid2
    /\ dids[ret.args[1]] =
          [controller |-> ret.sender, cid |-> ipfsCid1, status |-> Revoked]

\* C20: a successful createDID(cid) by caller c derives the identifier from c
\* and c's current nonce, stores the record (c, cid, Active) under it,
\* increments c's nonce by one and leaves every other nonce alone, appends the
\* identifier to c's list and emits DIDRegistered(id, c, cid); resolveDID
\* returns the stored record.
C20_CreateEffect ==
    [][/\ \A sender \in Address, cid \in Cids :
             (createDID(sender, cid) /\ ret'.status = Ok)
             => LET did == didOf(sender, nonces[sender])
                IN  /\ dids' = [dids EXCEPT ![did] =
                           [controller |-> sender, cid |-> cid, status |-> Active]]
                    /\ nonces'[sender] = nonces[sender] + 1
                    /\ \A other \in Address \ {sender} : nonces'[other] = nonces[other]
                    /\ ownerToDIDs' =
                           [ownerToDIDs EXCEPT ![sender] = Append(@, did)]
                    /\ didEvents' = Append(didEvents,
                           [name |-> "DIDRegistered", args |-> <<did, sender, cid>>])
       /\ \A did \in DIDUniverse :
             (resolveDID(did) /\ ret'.status = Ok)
             => ret'.out = <<dids[did].controller, dids[did].cid, dids[did].status>>]_vars

\* C20 witness: a controller creates its second identifier while another
\* controller has created none; its nonce is 2 and the other nonce is 0.
C20_Witness ==
    /\ ret.op = "createDID"
    /\ ret.status = Ok
    /\ nonces[ret.sender] = 2
    /\ \A other \in Address \ {ret.sender} : nonces[other] = 0
    /\ Len(ownerToDIDs[ret.sender]) = 2
    /\ ownerToDIDs[ret.sender][2] = didOf(ret.sender, 1)
    /\ dids[didOf(ret.sender, 1)] =
          [controller |-> ret.sender, cid |-> ret.args[1], status |-> Active]

\* C21: updateDID and revokeDID on an existing record by a caller that is not
\* its controller fail with "Caller is not the controller" and change nothing;
\* the controller of a record never changes, and in every state it is the
\* account that created the record.
C21_OnlyControllerMutates ==
    [][/\ ((IsUpdate' \/ IsRevokeDID')
           /\ dids[uDid'].controller # ZeroAddress
           /\ dids[uDid'].controller # uSender')
          => /\ ret'.status = ErrNotController
             /\ UNCHANGED didVars
       /\ \A did \in DIDUniverse :
             /\ dids[did].controller # ZeroAddress
                => dids'[did].controller = dids[did].controller
             /\ dids'[did].controller # ZeroAddress
                => dids'[did].controller = CreatorOf(didEvents', did)
             /\ (dids[did].controller # ZeroAddress /\ dids'[did] # dids[did])
                => ret'.sender = dids[did].controller]_vars

\* C21 witness: an account that is not the controller tries to revoke an
\* active identifier and is refused; the identifier stays active.
C21_Witness ==
    /\ IsRevokeDID
    /\ ret.status = ErrNotController
    /\ dids[uDid].controller \notin {ZeroAddress, uSender}
    /\ dids[uDid].status = Active

\* C22: resolveDID(id) fails with "DID does not exist" exactly when no
\* createDID produced id, and changes no state; getDIDsByOwner never fails,
\* changes no state, and returns the empty sequence for an account that has
\* created nothing.
C22_ViewsReadOnly ==
    [][/\ ret'.op = "resolveDID"
          => /\ ret'.status \in {Ok, ErrDIDNotExist}
             /\ ret'.status = ErrDIDNotExist
                <=> \A i \in Registrations(didEvents) :
                       didEvents[i].args[1] # ret'.args[1]
             /\ UNCHANGED <<vcVars, didVars>>
       /\ ret'.op = "getDIDsByOwner"
          => /\ ret'.status = Ok
             /\ RegisteredBy(didEvents, ret'.args[1]) = {} => ret'.out = <<>>
             /\ UNCHANGED <<vcVars, didVars>>]_vars

\* C22 witness: while another identifier exists, an identifier that was never
\* created fails to resolve.
C22_Witness ==
    /\ ret.op = "resolveDID"
    /\ ret.status = ErrDIDNotExist
    /\ dids[ret.args[1]].controller = ZeroAddress
    /\ Len(didEvents) >= 1

\* The positions of the log that hold the event `name` with first argument `key`.
EventsFor(log, name, key) ==
    { i \in 1..Len(log) : log[i].name = name /\ log[i].args[1] = key }

\* C23: a successful issueBatchCredentials(root) by c appends exactly one
\* BatchCredentialsIssued(root, c), a successful revokeBatchCredential(leaf,
\* root) by c appends exactly one BatchCredentialRevoked(leaf, root, c), and no
\* other call appends; the log holds at most one BatchCredentialsIssued per
\* root and at most one BatchCredentialRevoked per leaf, and every
\* BatchCredentialRevoked comes after the BatchCredentialsIssued of its root.
C23_EventLog ==
    [][/\ vcEvents' =
             IF ret'.op = "issueBatchCredentials" /\ ret'.status = Ok
             THEN Append(vcEvents, [name |-> "BatchCredentialsIssued",
                                    args |-> <<ret'.args[1], ret'.sender>>])
             ELSE IF ret'.op = "revokeBatchCredential" /\ ret'.status = Ok
             THEN Append(vcEvents, [name |-> "BatchCredentialRevoked",
                                    args |-> <<ret'.args[1], ret'.args[2], ret'.sender>>])
             ELSE vcEvents
       /\ \A b \in Bytes32 :
             /\ Cardinality(EventsFor(vcEvents', "BatchCredentialsIssued", b)) <= 1
             /\ Cardinality(EventsFor(vcEvents', "BatchCredentialRevoked", b)) <= 1
       /\ \A i \in 1..Len(vcEvents') :
             vcEvents'[i].name = "BatchCredentialRevoked"
             => \E j \in 1..(i - 1) :
                   /\ vcEvents'[j].name = "BatchCredentialsIssued"
                   /\ vcEvents'[j].args[1] = vcEvents'[i].args[2]]_vars

\* C23 witness: two roots have been published and a leaf has been revoked
\* under the second; the log holds the three events in that order.
C23_Witness ==
    /\ ret.op = "revokeBatchCredential"
    /\ ret.status = Ok
    /\ Len(vcEvents) = 3
    /\ vcEvents[1].name = "BatchCredentialsIssued"
    /\ vcEvents[2] = [name |-> "BatchCredentialsIssued",
                      args |-> <<ret.args[2], ret.sender>>]
    /\ vcEvents[3] = [name |-> "BatchCredentialRevoked",
                      args |-> <<ret.args[1], ret.args[2], ret.sender>>]

\* C24: the deployer holds DEFAULT_ADMIN_ROLE and ISSUER_ROLE from
\* construction; grantIssuerRole(x) called by an admin succeeds and makes x
\* hold ISSUER_ROLE; grantIssuerRole or revokeIssuerRole called by an account
\* that is not an admin fails and leaves every role assignment unchanged.
C24_RoleManagement ==
    [][/\ ret.op = "constructor"
          => (hasRole(DEFAULT_ADMIN_ROLE, Deployer) /\ hasRole(ISSUER_ROLE, Deployer))
       /\ (ret'.op = "grantIssuerRole" /\ hasRole(DEFAULT_ADMIN_ROLE, ret'.sender))
          => /\ ret'.status = Ok
             /\ roles' = [roles EXCEPT ![ISSUER_ROLE] = @ \cup {ret'.args[1]}]
       /\ (ret'.op \in {"grantIssuerRole", "revokeIssuerRole"}
           /\ ~hasRole(DEFAULT_ADMIN_ROLE, ret'.sender))
          => /\ ret'.status = ErrUnauthorizedAccount
             /\ roles' = roles]_vars

\* C24 witness: the second account holds ISSUER_ROLE but is no admin; its
\* grantIssuerRole for the deployer, who has renounced ISSUER_ROLE, fails.
C24_Witness ==
    /\ ret.op = "grantIssuerRole"
    /\ ret.sender = User1
    /\ ret.args[1] = Deployer
    /\ ret.status = ErrUnauthorizedAccount
    /\ hasRole(ISSUER_ROLE, User1)
    /\ ~hasRole(DEFAULT_ADMIN_ROLE, User1)
    /\ ~hasRole(ISSUER_ROLE, Deployer)

\* The last call was VerifiableCredential.verifyCredential(credentialId).
IsCredVerify == ret.op = "VerifiableCredential.verifyCredential"

\* The positions of the log at which credentialId was issued.
Issuances(log, credentialId) == EventsFor(log, "CredentialIssued", credentialId)

\* The account that issued credentialId, as the log records it.
OriginalIssuer(log, credentialId) ==
    log[CHOOSE i \in Issuances(log, credentialId) : TRUE].args[2]

\* credentialId was revoked by a successful revokeCredential(credentialId).
CredWasRevoked(log, credentialId) ==
    EventsFor(log, "CredentialRevoked", credentialId) # {}

\* C25: in the VerifiableCredential contract, verifyCredential(id) returns
\* (true, issuer, ipfsHash) of the issuance exactly when id was issued (which
\* only an issuer trusted at that moment can do) and no revokeCredential(id)
\* succeeded since, and (false, zero address, "") otherwise, whether or not the
\* issuer is still trusted; revokeCredential(id) succeeds exactly for the
\* account that issued id while id is unrevoked, and fails for every id that
\* was never issued; issueCredential succeeds only for a trusted issuer and an
\* id never issued before, so the log holds at most one CredentialIssued per id.
C25_SingleCredential ==
    [][ /\ \A id \in CredentialIds :
              /\ Cardinality(Issuances(credEvents', id)) <= 1
              /\ (Issuances(credEvents, id) # {} /\ _credentials[id].issuer # ZeroAddress)
                    => /\ _credentials'[id].issuer = _credentials[id].issuer
                       /\ _credentials'[id].ipfsHash = _credentials[id].ipfsHash
                       /\ _credentials[id].revoked => _credentials'[id].revoked
        /\ IsCredVerify' =>
              LET id == ret'.args[1]
                  live == /\ Issuances(credEvents, id) # {}
                          /\ ~CredWasRevoked(credEvents, id)
              IN  /\ ret'.status = Ok
                  /\ live => /\ ret'.out[1] = TRUE
                             /\ ret'.out[2] = OriginalIssuer(credEvents, id)
                             /\ ret'.out[2] # ZeroAddress
                             /\ ret'.out[3] = _credentials[id].ipfsHash
                  /\ ~live => ret'.out = <<FALSE, ZeroAddress, "">>
        /\ ret'.op = "issueCredential" =>
              LET id == ret'.args[1]
              IN  /\ ret'.status = Ok =>
                        /\ trustedIssuers[ret'.sender]
                        /\ Issuances(credEvents, id) = {}
                        /\ credEvents' = Append(credEvents,
                               [name |-> "CredentialIssued",
                                args |-> <<id, ret'.sender, ret'.args[2]>>])
                        /\ _credentials'[id].ipfsHash = ret'.args[3]
                  /\ Issuances(credEvents, id) # {} => ret'.status # Ok
        /\ ret'.op = "revokeCredential" =>
              LET id == ret'.args[1]
              IN  ret'.status = Ok <=>
                     /\ Issuances(credEvents, id) # {}
                     /\ OriginalIssuer(credEvents, id) = ret'.sender
                     /\ ~CredWasRevoked(credEvents, id)
      ]_vars

\* An issued credential verifies as (true, Deployer, cid) although the deployer
\* is no longer a trusted issuer.
C25_Witness ==
    /\ IsCredVerify
    /\ ret.out = <<TRUE, Deployer, ipfsCid1>>
    /\ ~trustedIssuers[Deployer]
    /\ Issuances(credEvents, ret.args[1]) # {}

\* leafSeq with the leaves at positions i and i + 1 exchanged.
SwapAt(leafSeq, i) ==
    [j \in 1..Len(leafSeq) |->
        IF j = i THEN leafSeq[i + 1] ELSE IF j = i + 1 THEN leafSeq[i] ELSE leafSeq[j]]

\* The first positions of the pairs of a layer: positions are paired (1,2), (3,4), ...
PairStarts(nodes) == { i \in 1..(Len(nodes) - 1) : i % 2 = 1 }

\* The smaller and the larger of two bytes32 values.
MinOf(a, b) == IF Less(b, a) THEN b ELSE a
MaxOf(a, b) == IF Less(b, a) THEN a ELSE b

\* C26: in the tree the client built with sortPairs, every interior node is
\* the hash of its two children in sorted order (a node without a partner is
\* carried up); exchanging the two leaves of any pair leaves the root
\* unchanged, and so does exchanging the children of any pair; the proof of a
\* leaf taken from the tree with its pair exchanged, where its sibling is on
\* the other side, gives the same verdict against the root as the client's own
\* proof, and one verifier step gives the same value with the sibling on either
\* side; building the tree again from the same sequence gives the same root.
C26_SiblingOrderIrrelevant ==
    client.layers # <<>> =>
        /\ \A k \in 2..Len(client.layers) :
              \A i \in 1..Len(client.layers[k]) :
                 LET below == client.layers[k - 1]
                 IN  IF 2 * i <= Len(below)
                     THEN client.layers[k][i] =
                              keccak256(MinOf(below[2 * i - 1], below[2 * i]),
                                        MaxOf(below[2 * i - 1], below[2 * i]))
                     ELSE client.layers[k][i] = below[2 * i - 1]
        /\ \A k \in 1..Len(client.layers) :
              \A i \in PairStarts(client.layers[k]) :
                 LET a == client.layers[k][i]
                     b == client.layers[k][i + 1]
                 IN  /\ hashPair(a, b) = hashPair(b, a)
                     /\ commutativeKeccak256(a, b) = commutativeKeccak256(b, a)
        /\ \A i \in PairStarts(client.leaves) :
              LET swapped == MerkleTree(SwapAt(client.leaves, i))
              IN  /\ getHexRoot(swapped) = client.merkleRoot
                  /\ \A leaf \in Elems(client.leaves) :
                        verifyProof(leaf, client.merkleRoot, getHexProof(swapped, leaf))
                          = verifyProof(leaf, client.merkleRoot,
                                        getHexProof(client.layers, leaf))
        /\ getHexRoot(MerkleTree(client.leaves)) = client.merkleRoot

\* The client built a tree of five leaves whose first pair holds two different
\* leaves, and checked the proof of one of them against the root.
C26_Witness ==
    /\ Len(client.leaves) = MaxLeaves
    /\ client.leaves[1] # client.leaves[2]
    /\ client.own.done /\ client.own.valid
    /\ client.own.leaf = client.leaves[1]
    /\ getHexRoot(MerkleTree(SwapAt(client.leaves, 1))) = client.merkleRoot

\* C27: verifyCredential never reverts and leaves merkleRootToIssuer, the
\* revocation set, the role assignments and the event log as they were, for
\* every leaf, root and proof in every state; its verdict is determined by
\* the arguments and that state, so a second call with the same arguments
\* right after the first returns the same verdict.
C27_VerifyIsPureQuery ==
    [][ IsVerify' =>
          /\ ret'.status = Ok
          /\ merkleRootToIssuer' = merkleRootToIssuer
          /\ isBatchCredentialRevoked' = isBatchCredentialRevoked
          /\ roles' = roles
          /\ vcEvents' = vcEvents
          /\ ret'.out = verifyCredential_result(ret'.args[1], ret'.args[2], ret'.args[3])
          /\ (IsVerify /\ ret.args = ret'.args) => ret'.out = ret.out
      ]_vars

\* A leaf was verified with a proof that does not recompute to its published
\* root, and the leaf is still not revoked afterwards.
C27_Witness ==
    /\ IsVerify
    /\ ret.out.at = "invalidProof"
    /\ vLeaf \in Leaves
    /\ ~isBatchCredentialRevoked[vLeaf]
    /\ \E l \in Leaves : isBatchCredentialRevoked[l]

\* The last call was revokeBatchCredential(leaf, root).
IsRevokeBatch == ret.op = "revokeBatchCredential"

\* The account published some root, as the log records it.
PublishedSomeRoot(log, account) ==
    \E root \in RootUniverse : Emitted(log, "BatchCredentialsIssued", <<root, account>>)

\* The leaf is in the batch published under the root.
InBatchOf(leaf, root) == \E b \in BatchesOf(root) : leaf \in Elems(b)

\* C28: revokeBatchCredential(leaf, r1) sent by the recorded issuer of r1
\* succeeds for every unrevoked leaf, whether or not the leaf is in the batch
\* of r1, and no revokeBatchCredential succeeds for a sender that has
\* published no root; once the issuer of r1 has revoked a leaf that is in the
\* batch of another root r2 only, published by a different issuer,
\* verifyCredential(leaf, r2, validProof) returns (false, zero address).
C28_RevokeIgnoresMembership ==
    [][ /\ IsRevokeBatch' =>
              LET leaf == ret'.args[1]
                  r1 == ret'.args[2]
              IN  /\ (/\ merkleRootToIssuer[r1] = ret'.sender
                      /\ ~isBatchCredentialRevoked[leaf]) => ret'.status = Ok
                  /\ ret'.status = Ok =>
                        /\ PublishedSomeRoot(vcEvents, ret'.sender)
                        /\ isBatchCredentialRevoked'[leaf]
                  /\ ~PublishedSomeRoot(vcEvents, ret'.sender) =>
                        /\ ret'.status # Ok
                        /\ isBatchCredentialRevoked' = isBatchCredentialRevoked
        /\ IsVerify' =>
              LET leaf == ret'.args[1]
                  r2 == ret'.args[2]
              IN  (\E r1 \in RootUniverse \ {r2} :
                      /\ ~InBatchOf(leaf, r1)
                      /\ InBatchOf(leaf, r2)
                      /\ merkleRootToIssuer[r1] # merkleRootToIssuer[r2]
                      /\ Emitted(vcEvents, "BatchCredentialRevoked",
                                 <<leaf, r1, merkleRootToIssuer[r1]>>))
                  => /\ ret'.out.valid = FALSE
                     /\ ret'.out.issuer = ZeroAddress
      ]_vars

\* leaf2 is in the three-leaf batch published by User1 only; the deployer, who
\* published the root of the one-leaf batch, revoked it under that root, and
\* verifying leaf2 under User1's root with its valid proof is rejected.
C28_Witness ==
    /\ IsVerify
    /\ vLeaf = leaf2
    /\ vRoot = RootOf[<<leaf1, leaf2, leaf3>>]
    /\ merkleRootToIssuer[vRoot] = User1
    /\ merkleRootToIssuer[RootOf[<<leaf1>>]] = Deployer
    /\ MerkleProof_verify(vProof, vRoot, vLeaf)
    /\ Emitted(vcEvents, "BatchCredentialRevoked", <<leaf2, RootOf[<<leaf1>>], Deployer>>)
    /\ ~InBatchOf(leaf2, RootOf[<<leaf1>>])
    /\ Rejected

\* C29: revokeIssuerRole leaves merkleRootToIssuer, the revocation set and the
\* event log unchanged; for an account a without ISSUER_ROLE that is recorded
\* as the issuer of a root, verifyCredential of an unrevoked leaf with a proof
\* that recomputes to the root returns (true, a), revokeBatchCredential of an
\* unrevoked leaf under the root sent by a succeeds, and every
\* issueBatchCredentials sent by a fails as unauthorized and records nothing.
C29_RoleRemovalKeepsBatches ==
    [][ /\ ret'.op = "revokeIssuerRole" =>
              /\ merkleRootToIssuer' = merkleRootToIssuer
              /\ isBatchCredentialRevoked' = isBatchCredentialRevoked
              /\ vcEvents' = vcEvents
              /\ ret'.status = Ok => ret'.args[1] \notin roles'[ISSUER_ROLE]
        /\ IsVerify' =>
              LET leaf == ret'.args[1]
                  root == ret'.args[2]
                  a == merkleRootToIssuer[root]
              IN  (/\ a # ZeroAddress
                   /\ ~hasRole(ISSUER_ROLE, a)
                   /\ ~isBatchCredentialRevoked[leaf]
                   /\ MerkleProof_verify(ret'.args[3], root, leaf))
                  => /\ ret'.out.valid = TRUE
                     /\ ret'.out.issuer = a
        /\ IsRevokeBatch' =>
              LET leaf == ret'.args[1]
                  root == ret'.args[2]
              IN  (/\ merkleRootToIssuer[root] = ret'.sender
                   /\ ~hasRole(ISSUER_ROLE, ret'.sender)
                   /\ ~isBatchCredentialRevoked[leaf])
                  => /\ ret'.status = Ok
                     /\ isBatchCredentialRevoked'[leaf]
        /\ (ret'.op = "issueBatchCredentials" /\ ~hasRole(ISSUER_ROLE, ret'.sender)) =>
              /\ ret'.status = ErrUnauthorizedAccount
              /\ merkleRootToIssuer' = merkleRootToIssuer
      ]_vars

\* An account whose ISSUER_ROLE was removed after it published a root
\* successfully revoked a leaf under that root.
C29_Witness ==
    /\ IsRevokeBatch
    /\ ret.status = Ok
    /\ merkleRootToIssuer[ret.args[2]] = ret.sender
    /\ ~hasRole(ISSUER_ROLE, ret.sender)
    /\ isBatchCredentialRevoked[ret.args[1]]

\* The index of controller c agrees with its nonce and with the records.
IndexConsistent(c) ==
    LET list == ownerToDIDs[c]
    IN  /\ Len(list) = nonces[c]
        /\ \A i, j \in 1..Len(list) : list[i] = list[j] => i = j
        /\ \A k \in 0..(Len(list) - 1) : list[k + 1] = didOf(c, k)
        /\ \A i \in 1..Len(list) : dids[list[i]].controller = c

\* list grew by appending at most: the old list is a prefix of the new one.
IsPrefix(old, new) ==
    /\ Len(old) <= Len(new)
    /\ \A i \in 1..Len(old) : new[i] = old[i]

\* C30: in every reachable state of the DIDRegistry, for every controller c,
\* the length of ownerToDIDs[c] equals nonces[c], the list has no duplicates,
\* its element at (0-based) position k is the identifier derived from (c, k),
\* and every listed identifier has a record whose controller is c, revoked
\* ones included; on every step the list of every controller keeps its old
\* elements in place and grows at its end only.
C30_IndexConsistency ==
    /\ [](\A c \in Address : IndexConsistent(c))
    /\ [][\A c \in Address : IsPrefix(ownerToDIDs[c], ownerToDIDs'[c])]_vars

\* The deployer created two identifiers and revoked the first, which is still
\* listed in its place before the second.
C30_Witness ==
    /\ Len(ownerToDIDs[Deployer]) = 2
    /\ nonces[Deployer] = 2
    /\ dids[ownerToDIDs[Deployer][1]].status = Revoked
    /\ dids[ownerToDIDs[Deployer][2]].status = Active
    /\ ownerToDIDs[Deployer][2] = didOf(Deployer, 1)

\* This step is the completion of handleIssueBatch, confirmed or failed.
IssueBatchCompletes == issueBatch.pc # "idle" /\ issueBatch'.pc = "idle"

\* This step is the completion of handleIssueBatch with a confirmed transaction.
IssueBatchConfirmed ==
    /\ IssueBatchCompletes
    /\ message' = MsgSuccess
    /\ issuedBatches' = Append(issuedBatches,
           [merkleRoot |-> issueBatch.merkleRoot, leaves |-> issueBatch.leaves])

\* C31: when handleIssueBatch completes, every credential that is pending at
\* that moment, those added while the transaction was awaited included, is
\* still in credentialsToIssue afterwards or is one of the leaves of the root
\* this call issued; and credentialsToIssue is emptied only by a completion
\* whose transaction was confirmed, never by a failed one.
C31_NoPendingCredentialLost ==
    [][ /\ IssueBatchCompletes =>
              \A i \in 1..Len(credentialsToIssue) :
                 \/ credentialsToIssue[i] \in Elems(credentialsToIssue')
                 \/ /\ IssueBatchConfirmed
                    /\ leafOf(credentialsToIssue[i]) \in Elems(issueBatch.leaves)
        /\ (credentialsToIssue # <<>> /\ credentialsToIssue' = <<>>) => IssueBatchConfirmed
        /\ (IssueBatchCompletes /\ ~IssueBatchConfirmed) =>
              credentialsToIssue' = credentialsToIssue
      ]_vars

\* A credential was added while handleIssueBatch awaits the confirmation of
\* its transaction: the pending list is longer than the list the call captured.
C31_Witness ==
    /\ issueBatch.pc = "wait"
    /\ Len(credentialsToIssue) > Len(issueBatch.credentialsToIssue)
    /\ \E i \in 1..Len(credentialsToIssue) :
          leafOf(credentialsToIssue[i]) \notin Elems(issueBatch.leaves)

\* The last call into the hook was the accountsChanged listener with an empty
\* account list, and every promise pending since has settled.
DisconnectSettled ==
    /\ ret.op = "accountsChanged"
    /\ ret.args[1] = <<>>
    /\ promises = <<>>

\* C32: under every interleaving of connectWallet, accountsChanged events and
\* the settling of pending promises, once an accountsChanged event with an
\* empty account list has been handled and all pending promises have settled,
\* account, signer and provider are all null.
C32_DisconnectClearsWallet ==
    DisconnectSettled =>
        /\ useEthers.account = null
        /\ useEthers.signer = null
        /\ useEthers.provider = null

\* After the empty accountsChanged event and the settling of the promise that
\* was pending when it was handled, a signer is present without an account.
C32_Witness ==
    /\ DisconnectSettled
    /\ useEthers.signer # null
    /\ useEthers.account = null
    /\ useEthers.provider = null

====
